---- MODULE Spec2Model ----
(***************************************************************************)
(* Tile pyramid engine of factoriomaps-rs (factoriomaps_lib/src/render.rs):*)
(* the coordinate algebra of Tile, the planner ThreadContext::new, the     *)
(* coordinator main_loop and the worker pool of spawn_threads, connected   *)
(* by the two unbounded FIFO channels (work, result).                      *)
(*                                                                         *)
(* Images are not modelled by content: an image is identified by the tile  *)
(* it belongs to.  Surface names are unique within a manifest (they are    *)
(* the names of the game's surfaces).                                      *)
(***************************************************************************)
EXTENDS Integers, Sequences, FiniteSets, Bags, TLC

(***************************************************************************)
(* Program constants                                                       *)
(***************************************************************************)
MAX_ZOOM == 20
NUM_PARTS == 2
ZOOM_MARGIN == 6

(***************************************************************************)
(* Bounds of the model                                                     *)
(***************************************************************************)
\* chunk coordinates of the planner inputs range over -MaxCoord..MaxCoord
MaxCoord == 2
\* total number of chunk entries in a planner input manifest
MaxChunks == 2
\* number of worker threads (available_parallelism)
NumWorkers == 2
\* interrupts raised by the user in a run that is interrupted
MaxInterrupts == 1
\* the pixels of a part in the runs of the flattening loop
NumPixels == 2
\* half-width of the coordinate range and number of zoom levels of the tiles
\* the coordinate algebra is probed on
MaxTileCoord == 3
MaxExtras == 1
\* files the game may create in the file system, calls it may make to it
MaxInodes == 2
MaxFsOps == 5
ZoomLevels == 3

Surfaces == {"nauvis", "factory"}
Workers == 1..NumWorkers

(***************************************************************************)
(* Tile and its coordinate algebra                                         *)
(***************************************************************************)
Tile(s, z, x, y) == [surface |-> s, zoom |-> z, x |-> x, y |-> y]

\* i32::div_floor: rounds towards negative infinity
div_floor(a, b) == IF a >= 0 THEN a \div b ELSE -(((-a) + (b - 1)) \div b)

\* a division that truncates towards zero, as the `/` operator of i32 does
div_trunc(a, b) == IF a >= 0 THEN a \div b ELSE -((-a) \div b)

zoom_out_trunc(t) == Tile(t.surface, t.zoom - 1, div_trunc(t.x, 2), div_trunc(t.y, 2))

zoom_out(t) == Tile(t.surface, t.zoom - 1, div_floor(t.x, 2), div_floor(t.y, 2))

zoom_in(t) == Tile(t.surface, t.zoom + 1, t.x * 2, t.y * 2)

translate(t, x, y) == Tile(t.surface, t.zoom, t.x + x, t.y + y)

ChildOffsets == << <<0, 0>>, <<1, 0>>, <<0, 1>>, <<1, 1>> >>

\* Vec<Tile> of the four children, in the order of the offsets
children(t) ==
    LET origin == zoom_in(t)
    IN  [i \in 1..4 |-> translate(origin, ChildOffsets[i][1], ChildOffsets[i][2])]

Range(f) == {f[i] : i \in DOMAIN f}

(***************************************************************************)
(* Planner: ThreadContext::new                                             *)
(***************************************************************************)
Min(a, b) == IF a < b THEN a ELSE b
Max(a, b) == IF a > b THEN a ELSE b

RECURSIVE ilog2(_)
\* u32/i32::ilog2: floor of the base-2 logarithm (the caller passes n >= 1)
ilog2(n) == IF n <= 1 THEN 0 ELSE 1 + ilog2(n \div 2)

\* Rust evaluates the arguments of a call once, before the call.  ByValue1,
\* ByValue2 apply F to the values of their arguments.
ByValue1(F(_), a) == CHOOSE r \in {F(x) : x \in {a}} : TRUE
ByValue2(F(_, _), a, b) == CHOOSE r \in {F(x, y) : x \in {a}, y \in {b}} : TRUE

RECURSIVE FoldMin(_, _, _)
FoldMin(s, i, acc) ==
    IF i > Len(s) THEN acc
    ELSE ByValue1(LAMBDA m : FoldMin(s, i + 1, m), Min(acc, s[i]))
RECURSIVE FoldMax(_, _, _)
FoldMax(s, i, acc) ==
    IF i > Len(s) THEN acc
    ELSE ByValue1(LAMBDA m : FoldMax(s, i + 1, m), Max(acc, s[i]))

Xs(chunks) == [i \in DOMAIN chunks |-> chunks[i].x]
Ys(chunks) == [i \in DOMAIN chunks |-> chunks[i].y]

\* an extent without the margin of one on the negative side
Extent_nomargin(chunks) ==
    LET min_x == FoldMin(Xs(chunks), 1, chunks[1].x)
        max_x == FoldMax(Xs(chunks), 1, chunks[1].x)
        min_y == FoldMin(Ys(chunks), 1, chunks[1].y)
        max_y == FoldMax(Ys(chunks), 1, chunks[1].y)
    IN  Max(Max(Max(0 - min_x, 0 - min_y), max_x), max_y)

\* lines 176-187: the value handed to ilog2, for a non-empty chunk list
Extent(chunks) ==
    LET min_x == FoldMin(Xs(chunks), 1, chunks[1].x)
        max_x == FoldMax(Xs(chunks), 1, chunks[1].x)
        min_y == FoldMin(Ys(chunks), 1, chunks[1].y)
        max_y == FoldMax(Ys(chunks), 1, chunks[1].y)
    IN  Max(Max(Max(1 - min_x, 1 - min_y), max_x), max_y)

\* the ceiling of the base-2 logarithm
RECURSIVE ceil_log2(_)
ceil_log2(n) == IF n <= 1 THEN 0 ELSE 1 + ceil_log2((n + 1) \div 2)

SurfaceMinZoom_ceil(chunks) == MAX_ZOOM - ceil_log2(Extent(chunks)) - ZOOM_MARGIN

\* line 188
SurfaceMinZoom(chunks) == MAX_ZOOM - ilog2(Extent(chunks)) - ZOOM_MARGIN

\* a walk that stops at zoom mz + 1 instead of going on to mz
RECURSIVE Walk_short(_, _, _)
Walk_short(tile, mz, reg) ==
    IF tile.zoom <= mz + 1 \/ tile \in DOMAIN reg
    THEN reg
    ELSE ByValue2(LAMBDA t, r : Walk_short(t, mz, r),
                  zoom_out(tile), reg @@ (tile :> "Waiting"))

\* a walk that goes on to zoom mz itself
RECURSIVE Walk_deep(_, _, _)
Walk_deep(tile, mz, reg) ==
    IF tile.zoom < mz \/ tile \in DOMAIN reg
    THEN reg
    ELSE ByValue2(LAMBDA t, r : Walk_deep(t, mz, r),
                  zoom_out(tile), reg @@ (tile :> "Waiting"))

\* lines 199-205: the walk from a chunk's tile towards the root
RECURSIVE Walk(_, _, _)
Walk(tile, mz, reg) ==
    IF tile.zoom <= mz \/ tile \in DOMAIN reg
    THEN reg
    ELSE ByValue2(LAMBDA t, r : Walk(t, mz, r),
                  zoom_out(tile), reg @@ (tile :> "Waiting"))

\* lines 191-206: the walks of all chunks of one surface, in list order
RECURSIVE PlanChunks(_, _, _, _, _)
PlanChunks(name, chunks, i, mz, reg) ==
    IF i > Len(chunks)
    THEN reg
    ELSE ByValue1(LAMBDA r : PlanChunks(name, chunks, i + 1, mz, r),
                  Walk(Tile(name, MAX_ZOOM, chunks[i].x, chunks[i].y), mz, reg))

\* lines 172-206: one surface of the manifest, on the maps built so far
PlanSurface(surface, acc) ==
    IF Len(surface.chunks) = 0
    THEN acc
    ELSE ByValue1(LAMBDA mz :
                    [tiles    |-> PlanChunks(surface.name, surface.chunks, 1, mz, acc.tiles),
                     min_zoom |-> (surface.name :> mz) @@ acc.min_zoom],
                  SurfaceMinZoom(surface.chunks))

\* lines 171-207: the loop over the surfaces of the manifest
RECURSIVE PlanSurfaces(_, _, _)
PlanSurfaces(info, i, acc) ==
    IF i > Len(info)
    THEN acc
    ELSE ByValue1(LAMBDA a : PlanSurfaces(info, i + 1, a), PlanSurface(info[i], acc))

\* ThreadContext::new
NewThreadContext(info) ==
    ByValue1(LAMBDA plan :
               [info         |-> info,
                tiles        |-> plan.tiles,
                min_zoom     |-> plan.min_zoom,
                loaded_tiles |-> 0,
                total_tiles  |-> Cardinality(DOMAIN plan.tiles)],
             PlanSurfaces(info, 1, [tiles |-> << >>, min_zoom |-> << >>]))

(***************************************************************************)
(* Registry operations of the coordinator                                  *)
(***************************************************************************)
\* lines 227-238: `all` visits the children in order and stops at the first
\* Waiting child; a Processed child reached before that panics
RECURSIVE ReadyScan(_, _, _)
ReadyScan(reg, kids, i) ==
    IF i > Len(kids)
    THEN "true"
    ELSE IF kids[i] \notin DOMAIN reg
         THEN ReadyScan(reg, kids, i + 1)
         ELSE CASE reg[kids[i]] = "Loaded"    -> ReadyScan(reg, kids, i + 1)
                [] reg[kids[i]] = "Waiting"   -> "false"
                [] reg[kids[i]] = "Processed" -> "panic"

\* a readiness check that treats an absent child as not ready
tile_ready_strict(reg, tile) ==
    ByValue1(LAMBDA kids :
               IF \E c \in Range(kids) : c \notin DOMAIN reg
               THEN "false"
               ELSE ReadyScan(reg, kids, 1),
             children(tile))

\* ThreadContext::tile_ready: "true", "false" or "panic"
tile_ready(reg, tile) == ByValue1(LAMBDA kids : ReadyScan(reg, kids, 1), children(tile))

\* the children of parent that are keys of the registry, in children() order
RECURSIVE PresentChildren(_, _, _)
PresentChildren(reg, kids, i) ==
    IF i > Len(kids)
    THEN << >>
    ELSE IF kids[i] \in DOMAIN reg
         THEN <<kids[i]>> \o PresentChildren(reg, kids, i + 1)
         ELSE PresentChildren(reg, kids, i + 1)

\* a take that finds the children by zoom and coordinates only
TakeAll_anysurface(reg, kids) ==
    [reg |-> [t \in DOMAIN reg |->
                IF \E c \in Range(kids) : c.zoom = t.zoom /\ c.x = t.x /\ c.y = t.y
                THEN "Processed" ELSE reg[t]],
     panic |-> \E t \in Range(kids) : reg[t] # "Loaded"]

\* a take that copies the image and leaves the state as it is
TakeAll_keep(reg, kids) ==
    [reg |-> reg, panic |-> \E t \in Range(kids) : reg[t] # "Loaded"]

\* lines 147-154 applied to every present child (lines 479-483): each state is
\* replaced by Processed; taking a state that is not Loaded panics
TakeAll(reg, kids) ==
    [reg |-> [t \in DOMAIN reg |-> IF t \in Range(kids) THEN "Processed" ELSE reg[t]],
     panic |-> \E t \in Range(kids) : reg[t] # "Loaded"]

\* path components that do not scale the tile coordinates by NUM_PARTS
get_path_components_unscaled(part, tile) ==
    <<tile.zoom, part.x + tile.x, part.y + tile.y>>

\* lines 250-256
get_path_components(part, tile) ==
    <<tile.zoom, part.x + tile.x * NUM_PARTS, part.y + tile.y * NUM_PARTS>>

\* lines 265-273
get_tile_parts == [i \in 1..(NUM_PARTS * NUM_PARTS) |->
                      [x |-> (i - 1) \div NUM_PARTS, y |-> (i - 1) % NUM_PARTS]]

\* lines 257-263: the path of a part below <output>/tiles
get_path(part, tile) == <<tile.surface>> \o get_path_components(part, tile)

\* lines 503-520: the surfaces map of the map-index; a registry tile whose
\* surface is not a key of the map panics (get_mut(..).unwrap())
MapInfo(info, reg) ==
    LET names == {info[i].name : i \in DOMAIN info}
    IN  [panic    |-> \E t \in DOMAIN reg : t.surface \notin names,
         surfaces |-> [n \in names |->
                         {get_path_components(get_tile_parts[i], t) :
                            i \in DOMAIN get_tile_parts,
                            t \in {u \in DOMAIN reg : u.surface = n}}]]

(***************************************************************************)
(* Messages                                                                *)
(***************************************************************************)
InfoFile == [type |-> "File", name |-> "info.json"]
ChunkFile(s, x, y) == [type |-> "File", name |-> <<s, x, y>>, ext |-> "bmp"]

ReadImage(t) == [type |-> "ReadImage", tile |-> t]
TileWriteParts(t) == [type |-> "TileWriteParts", tile |-> t]
TileBuildParent(p, kids) == [type |-> "TileBuildParent", parent |-> p, children |-> kids]

FinishReadImage(t) == [type |-> "FinishReadImage", tile |-> t]
FinishWriteParts(t) == [type |-> "FinishWriteParts", tile |-> t]
FinishBuildParent(p) == [type |-> "FinishBuildParent", parent |-> p]
Finished == [type |-> "Finished"]
Killed == [type |-> "Killed"]

\* a worker thread without a work item: blocked in recv, left its loop, or
\* unwound by a panic
Idle == [type |-> "Idle"]
Exited == [type |-> "Exited"]
Panicked == [type |-> "Panicked"]

(***************************************************************************)
(* State                                                                   *)
(***************************************************************************)
VARIABLES
    manifest,        \* the content of info.json the game writes
    toDeliver,       \* files the game has not closed yet
    resultQ,         \* channel of MessageToMain (recv_result / send_result)
    workQ,           \* channel of MessageToWorker (recv_work / send_work)
    worker,          \* per worker thread: the work item it holds, or Idle
    thread_context,  \* Option<ThreadContext>: << >> is None, <<tc>> is Some(tc)
    mainPc,          \* "loop", "finished", "killed" or "panicked"
    mapIndex,        \* the map-index documents handed to extract_dir, in order
    partsOnDisk,     \* bag of the part paths written by tile_write_parts
    buildLog,        \* bag of the parents of the TileBuildParent items sent
    writeLog,        \* bag of the tiles of the TileWriteParts items sent
    doneLog,         \* bag of the tiles whose FinishWriteParts was handled
    finishedSent,    \* number of Finished messages sent by the coordinator
    probe,           \* input and results of the coordinate algebra probe
    ctrlc,           \* interrupts the user may still raise (ctrlc handler)
    endpoints,       \* "open", or "dropped" once the coordinator's closure returned
    exitStatus,      \* << >> while the process runs, <<code>> once it has exited
    tilesFS,         \* the TilesFS of fuse.rs: files, next_inode, and whether a
                     \* callback has panicked
    fsLog            \* the calls the kernel has made to the TilesFS, in order

vars == <<manifest, toDeliver, resultQ, workQ, worker, thread_context, mainPc,
          mapIndex, partsOnDisk, buildLog, writeLog, doneLog, finishedSent, probe,
          ctrlc, endpoints, exitStatus, tilesFS, fsLog>>

fsVars == <<tilesFS, fsLog>>

logs == <<mapIndex, buildLog, writeLog, doneLog, finishedSent>>

exitVars == <<ctrlc, endpoints, exitStatus>>

tc == thread_context[1]
HasContext == Len(thread_context) = 1

(***************************************************************************)
(* Inputs                                                                  *)
(***************************************************************************)
\* chunk coordinates within r of the origin: the two axes and the two diagonals
\* (both signs of x and of y, the four siblings around the origin, extents
\* where x decides and where y decides)
Coord(r) == {c \in [x : (-r)..r, y : (-r)..r] :
                c.x = 0 \/ c.y = 0 \/ c.x = c.y \/ c.x = -c.y}
ChunkLists(r, k) == [1..k -> Coord(r)]
SurfaceInfo(n, c) == [name |-> n, chunks |-> c]

\* the orders in which distinct surface names can be listed
NameSeqs ==
    {<< >>} \cup {<<a>> : a \in Surfaces}
            \cup {<<p[1], p[2]>> : p \in {q \in Surfaces \X Surfaces : q[1] # q[2]}}

ManifestOf(names, c1, c2) ==
    [i \in 1..Len(names) |-> SurfaceInfo(names[i], IF i = 1 THEN c1 ELSE c2)]

\* m is a manifest over distinct surface names, with chunk coordinates in
\* -r..r and at most n chunk entries in all
IsManifest(m, r, n) ==
    \E names \in NameSeqs :
        \E k1 \in (IF Len(names) >= 1 THEN 0..n ELSE {0}) :
            \E k2 \in (IF Len(names) >= 2 THEN 0..(n - k1) ELSE {0}) :
                \E c1 \in ChunkLists(r, k1), c2 \in ChunkLists(r, k2) :
                    m = ManifestOf(names, c1, c2)

\* the chunk images the game writes for a manifest: one per listed chunk
ChunkFiles(info) ==
    UNION {{ChunkFile(info[i].name, info[i].chunks[j].x, info[i].chunks[j].y) :
               j \in DOMAIN info[i].chunks} : i \in DOMAIN info}

NoProbe == [state |-> "none"]

(***************************************************************************)
(* The file system of fuse.rs                                              *)
(***************************************************************************)
\* fuse.rs line 15
STARTING_INODE == 2

\* render.rs lines 28-39: VirtualFile::new
VirtualFile(path) == [path |-> path, data |-> << >>]

\* render.rs line 43: MessageToMain::File, with the path and the bytes as the
\* file system hands them over
File(vf) == [type |-> "File", path |-> vf.path, data |-> vf.data]

\* fuse.rs lines 53-66: TilesFS::new
NewTilesFS == [files |-> << >>, next_inode |-> STARTING_INODE, panicked |-> FALSE]

InitEngine ==
    /\ resultQ = << >>
    /\ workQ = << >>
    /\ worker = [w \in Workers |-> Idle]
    /\ thread_context = << >>
    /\ mainPc = "loop"
    /\ mapIndex = << >>
    /\ partsOnDisk = EmptyBag
    /\ buildLog = EmptyBag
    /\ writeLog = EmptyBag
    /\ doneLog = EmptyBag
    /\ finishedSent = 0
    /\ endpoints = "open"
    /\ exitStatus = << >>
    /\ tilesFS = NewTilesFS
    /\ fsLog = << >>

\* The manifests that are run.  A pyramid has at least ZOOM_MARGIN levels, so
\* a run is long; the chunk lists are built from a pool of chunks that covers
\* the origin, a sibling of it, a negative chunk (another root) and a sparse
\* chunk (a deeper pyramid), alone, in ordered pairs (a pair of equal chunks
\* is a duplicate entry) and as three siblings with the fourth absent.
Chunk(x, y) == [x |-> x, y |-> y]
RunChunkPool == {Chunk(0, 0), Chunk(1, 0), Chunk(-1, -1), Chunk(3, 3)}
RunChunkLists ==
    {<< >>}
    \cup {<<c>> : c \in RunChunkPool}
    \cup {<<c, d>> : c \in RunChunkPool, d \in RunChunkPool}
    \cup {<<Chunk(1, 1), Chunk(0, 0), Chunk(1, 0)>>}
RunManifests ==
    {<< >>}
    \cup {<<SurfaceInfo("nauvis", c)>> : c \in RunChunkLists}
    \cup {<<SurfaceInfo("nauvis", <<c>>), SurfaceInfo("factory", d)>> :
             c \in {Chunk(0, 0), Chunk(-1, -1)},
             d \in {<< >>, <<Chunk(0, 0)>>, <<Chunk(3, 3)>>}}
    \cup {<<SurfaceInfo("factory", << >>), SurfaceInfo("nauvis", << >>)>>}

Init ==
    /\ manifest \in RunManifests
    /\ toDeliver = {InfoFile} \cup ChunkFiles(manifest)
    /\ probe = NoProbe
    /\ ctrlc = 0
    /\ InitEngine

(***************************************************************************)
(* The game: closes info.json first, then the chunk images in any order    *)
(***************************************************************************)
Deliver(f) ==
    /\ f \in toDeliver
    /\ f = InfoFile \/ InfoFile \notin toDeliver
    /\ endpoints = "open"
    /\ toDeliver' = toDeliver \ {f}
    /\ resultQ' = Append(resultQ, f)
    /\ UNCHANGED <<manifest, workQ, worker, thread_context, mainPc, partsOnDisk, probe>>
    /\ UNCHANGED logs
    /\ UNCHANGED exitVars
    /\ UNCHANGED fsVars

(***************************************************************************)
(* Workers: spawn_threads                                                  *)
(***************************************************************************)
\* line 377: recv_work.recv()
WorkerRecv(w) ==
    /\ worker[w] = Idle
    /\ workQ # << >>
    /\ worker' = [worker EXCEPT ![w] = Head(workQ)]
    /\ workQ' = Tail(workQ)
    /\ UNCHANGED <<manifest, toDeliver, resultQ, thread_context, mainPc, partsOnDisk, probe>>
    /\ UNCHANGED logs
    /\ UNCHANGED exitVars
    /\ UNCHANGED fsVars

\* send_result.send(msg).unwrap() by worker w: the message is queued while the
\* receiver exists; once it is dropped send returns Err and unwrap panics
SendResult(w, msg) ==
    IF endpoints = "open"
    THEN /\ resultQ' = Append(resultQ, msg)
         /\ worker' = [worker EXCEPT ![w] = Idle]
    ELSE /\ resultQ' = resultQ
         /\ worker' = [worker EXCEPT ![w] = Panicked]

\* line 377: recv_work.recv() returns Err once the channel is empty and its
\* senders are dropped; the worker leaves its loop
WorkerExit(w) ==
    /\ worker[w] = Idle
    /\ workQ = << >>
    /\ endpoints = "dropped"
    /\ worker' = [worker EXCEPT ![w] = Exited]
    /\ UNCHANGED <<manifest, toDeliver, resultQ, workQ, thread_context, mainPc, partsOnDisk,
                   probe>>
    /\ UNCHANGED logs
    /\ UNCHANGED exitVars
    /\ UNCHANGED fsVars

\* lines 379-386
WorkerReadImage(w) ==
    /\ worker[w].type = "ReadImage"
    /\ SendResult(w, FinishReadImage(worker[w].tile))
    /\ UNCHANGED <<manifest, toDeliver, workQ, thread_context, mainPc, partsOnDisk, probe>>
    /\ UNCHANGED logs
    /\ UNCHANGED exitVars
    /\ UNCHANGED fsVars

\* lines 274-301: the paths of the parts of a tile
TilePaths(tile) == {get_path(get_tile_parts[i], tile) : i \in DOMAIN get_tile_parts}

\* a write-parts stage that reports before it has written
WorkerWriteParts_unwritten(w) ==
    /\ worker[w].type = "TileWriteParts"
    /\ partsOnDisk' = partsOnDisk
    /\ SendResult(w, FinishWriteParts(worker[w].tile))
    /\ UNCHANGED <<manifest, toDeliver, workQ, thread_context, mainPc, probe>>
    /\ UNCHANGED logs
    /\ UNCHANGED exitVars
    /\ UNCHANGED fsVars

\* lines 387-392
WorkerWriteParts(w) ==
    /\ worker[w].type = "TileWriteParts"
    /\ partsOnDisk' = partsOnDisk (+) SetToBag(TilePaths(worker[w].tile))
    /\ SendResult(w, FinishWriteParts(worker[w].tile))
    /\ UNCHANGED <<manifest, toDeliver, workQ, thread_context, mainPc, probe>>
    /\ UNCHANGED logs
    /\ UNCHANGED exitVars
    /\ UNCHANGED fsVars

\* lines 393-410
WorkerBuildParent(w) ==
    /\ worker[w].type = "TileBuildParent"
    /\ SendResult(w, FinishBuildParent(worker[w].parent))
    /\ UNCHANGED <<manifest, toDeliver, workQ, thread_context, mainPc, partsOnDisk, probe>>
    /\ UNCHANGED logs
    /\ UNCHANGED exitVars
    /\ UNCHANGED fsVars

(***************************************************************************)
(* Coordinator: main_loop                                                  *)
(***************************************************************************)
Receiving(type) ==
    /\ mainPc = "loop"
    /\ resultQ # << >>
    /\ Head(resultQ).type = type

\* line 439: serde_json::from_slice into Vec<SurfaceInfo>; an entry without
\* the fields of SurfaceInfo (lines 110-115) is a schema mismatch
Parses(info) == \A i \in DOMAIN info : {"name", "chunks"} \subseteq DOMAIN info[i]

\* an info.json handler that plans again when a plan exists
MainFileInfo_replace ==
    /\ Receiving("File")
    /\ Head(resultQ).name = "info.json"
    /\ resultQ' = Tail(resultQ)
    /\ IF ~Parses(manifest)
       THEN /\ mainPc' = "panicked"
            /\ UNCHANGED thread_context
       ELSE /\ thread_context' = <<NewThreadContext(manifest)>>
            /\ UNCHANGED mainPc
    /\ UNCHANGED <<manifest, toDeliver, workQ, worker, partsOnDisk, probe>>
    /\ UNCHANGED logs
    /\ UNCHANGED exitVars
    /\ UNCHANGED fsVars

\* lines 436-440: info.json
MainFileInfo ==
    /\ Receiving("File")
    /\ Head(resultQ).name = "info.json"
    /\ resultQ' = Tail(resultQ)
    /\ IF HasContext
       THEN /\ mainPc' = "panicked"         \* assert!(info_exists, ..)
            /\ UNCHANGED thread_context
       ELSE IF ~Parses(manifest)
            THEN /\ mainPc' = "panicked"    \* from_slice(..).unwrap()
                 /\ UNCHANGED thread_context
            ELSE /\ thread_context' = <<NewThreadContext(manifest)>>
                 /\ UNCHANGED mainPc
    /\ UNCHANGED <<manifest, toDeliver, workQ, worker, partsOnDisk, probe>>
    /\ UNCHANGED logs
    /\ UNCHANGED exitVars
    /\ UNCHANGED fsVars

\* lines 441-463: a file other than info.json.  A chunk image <s>,<x>,<y>.bmp
\* becomes a ReadImage item; a file of another extension matches no branch
\* and is dropped.
MainFileChunk ==
    /\ Receiving("File")
    /\ Head(resultQ).name # "info.json"
    /\ IF Head(resultQ).ext = "bmp"
       THEN LET stem == Head(resultQ).name
            IN  workQ' = Append(workQ, ReadImage(Tile(stem[1], MAX_ZOOM, stem[2], stem[3])))
       ELSE workQ' = workQ
    /\ resultQ' = Tail(resultQ)
    /\ UNCHANGED <<manifest, toDeliver, worker, thread_context, mainPc, partsOnDisk, probe>>
    /\ UNCHANGED logs
    /\ UNCHANGED exitVars
    /\ UNCHANGED fsVars

\* a FinishReadImage handler that also counts the tile as loaded
MainFinishReadImage_counting ==
    /\ Receiving("FinishReadImage")
    /\ workQ' = Append(workQ, TileWriteParts(Head(resultQ).tile))
    /\ writeLog' = writeLog (+) SetToBag({Head(resultQ).tile})
    /\ resultQ' = Tail(resultQ)
    /\ thread_context' =
          IF HasContext THEN <<[tc EXCEPT !.loaded_tiles = @ + 1]>> ELSE thread_context
    /\ UNCHANGED <<manifest, toDeliver, worker, mainPc, partsOnDisk, probe>>
    /\ UNCHANGED <<mapIndex, buildLog, doneLog, finishedSent>>
    /\ UNCHANGED exitVars
    /\ UNCHANGED fsVars

\* lines 465-469
MainFinishReadImage ==
    /\ Receiving("FinishReadImage")
    /\ workQ' = Append(workQ, TileWriteParts(Head(resultQ).tile))
    /\ writeLog' = writeLog (+) SetToBag({Head(resultQ).tile})
    /\ resultQ' = Tail(resultQ)
    /\ UNCHANGED <<manifest, toDeliver, worker, thread_context, mainPc, partsOnDisk, probe>>
    /\ UNCHANGED <<mapIndex, buildLog, doneLog, finishedSent>>
    /\ UNCHANGED exitVars
    /\ UNCHANGED fsVars

\* a guard that also lets the parent at min_zoom itself through
ParentInRange_ge(parent, mz) == parent.zoom >= mz

\* line 477, first conjunct
ParentInRange(parent, mz) == parent.zoom > mz

\* a parent build that does not wait: it is dispatched on every completion,
\* with the children that are Loaded by then
ParentBuild_eager(reg, parent) ==
    ByValue1(LAMBDA kids :
               [dispatch |-> TRUE, reg |-> TakeAll(reg, kids).reg, kids |-> kids,
                panic |-> FALSE],
             SelectSeq(PresentChildren(reg, children(parent), 1),
                       LAMBDA c : reg[c] = "Loaded"))

\* line 477, second conjunct, and lines 478-483: the readiness check and, when
\* the parent is ready, the take of every present child
ParentBuild(reg, parent) ==
    ByValue1(LAMBDA ready :
               IF ready = "true"
               THEN ByValue1(LAMBDA kids :
                               ByValue1(LAMBDA taken :
                                          [dispatch |-> ~taken.panic, reg |-> taken.reg,
                                           kids |-> kids, panic |-> taken.panic],
                                        TakeAll(reg, kids)),
                             PresentChildren(reg, children(parent), 1))
               ELSE [dispatch |-> FALSE, reg |-> reg, kids |-> << >>,
                     panic |-> ready = "panic"],
             tile_ready(reg, parent))

NoBuild(reg, panic) == [dispatch |-> FALSE, reg |-> reg, kids |-> << >>, panic |-> panic]

\* a completion that is counted only when the tile was not yet a key
MarkLoaded_newonly(ctx, tile) ==
    [ctx EXCEPT !.loaded_tiles = IF tile \in DOMAIN ctx.tiles THEN @ ELSE @ + 1,
                !.tiles = (tile :> "Loaded") @@ @]

\* lines 472-474: progress() and the insert of the Loaded state
MarkLoaded(ctx, tile) ==
    [ctx EXCEPT !.loaded_tiles = @ + 1, !.tiles = (tile :> "Loaded") @@ @]

\* lines 476-488: the parent dispatch.  min_zoom[&tile.surface] panics when
\* the surface has no entry.
DispatchParent(ctx, tile) ==
    ByValue1(LAMBDA parent :
               ByValue1(LAMBDA build :
                          [ctx   |-> [ctx EXCEPT !.tiles = build.reg],
                           work  |-> IF build.dispatch
                                     THEN <<TileBuildParent(parent, build.kids)>>
                                     ELSE << >>,
                           panic |-> build.panic],
                        IF tile.surface \notin DOMAIN ctx.min_zoom
                        THEN NoBuild(ctx.tiles, TRUE)
                        ELSE IF ParentInRange(parent, ctx.min_zoom[tile.surface])
                             THEN ByValue1(LAMBDA reg : ParentBuild(reg, parent), ctx.tiles)
                             ELSE NoBuild(ctx.tiles, FALSE)),
             zoom_out(tile))

\* a finish check that compares by at-least and reads the manifest without
\* taking it
FinishCheck_atleast(ctx) ==
    IF ctx.loaded_tiles >= ctx.total_tiles
    THEN ByValue1(LAMBDA idx :
                    [ctx      |-> ctx,
                     index    |-> IF idx.panic THEN << >> ELSE <<idx.surfaces>>,
                     finished |-> ~idx.panic,
                     panic    |-> idx.panic],
                  MapInfo(ctx.info, ctx.tiles))
    ELSE [ctx |-> ctx, index |-> << >>, finished |-> FALSE, panic |-> FALSE]

\* a finish check that fires one completion early
FinishCheck_early(ctx) ==
    IF ctx.loaded_tiles + 1 = ctx.total_tiles
    THEN ByValue1(LAMBDA idx :
                    [ctx      |-> [ctx EXCEPT !.info = << >>],
                     index    |-> IF idx.panic THEN << >> ELSE <<idx.surfaces>>,
                     finished |-> ~idx.panic,
                     panic    |-> idx.panic],
                  MapInfo(ctx.info, ctx.tiles))
    ELSE [ctx |-> ctx, index |-> << >>, finished |-> FALSE, panic |-> FALSE]

\* lines 490-535: the finish check, the map-index and Finished
FinishCheck(ctx) ==
    IF ctx.loaded_tiles = ctx.total_tiles
    THEN ByValue1(LAMBDA idx :
                    [ctx      |-> [ctx EXCEPT !.info = << >>],
                     index    |-> IF idx.panic THEN << >> ELSE <<idx.surfaces>>,
                     finished |-> ~idx.panic,
                     panic    |-> idx.panic],
                  MapInfo(ctx.info, ctx.tiles))
    ELSE [ctx |-> ctx, index |-> << >>, finished |-> FALSE, panic |-> FALSE]

\* lines 471-535 on a ThreadContext ctx: the context afterwards, the work item
\* and the map-index produced, whether Finished is sent, whether it panicked
HandleWriteParts(ctx, tile) ==
    ByValue1(LAMBDA d :
               IF d.panic
               THEN [ctx |-> d.ctx, work |-> d.work, index |-> << >>,
                     finished |-> FALSE, panic |-> TRUE]
               ELSE ByValue1(LAMBDA f :
                               [ctx |-> f.ctx, work |-> d.work, index |-> f.index,
                                finished |-> f.finished, panic |-> f.panic],
                             FinishCheck(d.ctx)),
             ByValue1(LAMBDA c : DispatchParent(c, tile), MarkLoaded(ctx, tile)))

\* lines 470-536
MainFinishWriteParts ==
    /\ Receiving("FinishWriteParts")
    /\ IF ~HasContext
       THEN /\ mainPc' = "panicked"         \* thread_context.as_mut().unwrap()
            /\ resultQ' = Tail(resultQ)
            /\ UNCHANGED <<thread_context, workQ>>
            /\ UNCHANGED logs
       ELSE \E c \in {tc}, t \in {Head(resultQ).tile} : \E r \in {HandleWriteParts(c, t)} :
                /\ thread_context' = <<r.ctx>>
                /\ workQ' = workQ \o r.work
                /\ resultQ' = Tail(resultQ) \o (IF r.finished THEN <<Finished>> ELSE << >>)
                /\ mainPc' = IF r.panic THEN "panicked" ELSE mainPc
                /\ mapIndex' = mapIndex \o r.index
                /\ buildLog' = buildLog (+) SetToBag({r.work[i].parent : i \in DOMAIN r.work})
                /\ doneLog' = doneLog (+) SetToBag({Head(resultQ).tile})
                /\ finishedSent' = finishedSent + (IF r.finished THEN 1 ELSE 0)
                /\ UNCHANGED writeLog
    /\ UNCHANGED <<manifest, toDeliver, worker, partsOnDisk, probe>>
    /\ UNCHANGED exitVars
    /\ UNCHANGED fsVars

\* lines 537-544
MainFinishBuildParent ==
    /\ Receiving("FinishBuildParent")
    /\ workQ' = Append(workQ, TileWriteParts(Head(resultQ).parent))
    /\ writeLog' = writeLog (+) SetToBag({Head(resultQ).parent})
    /\ resultQ' = Tail(resultQ)
    /\ UNCHANGED <<manifest, toDeliver, worker, thread_context, mainPc, partsOnDisk, probe>>
    /\ UNCHANGED <<mapIndex, buildLog, doneLog, finishedSent>>
    /\ UNCHANGED exitVars
    /\ UNCHANGED fsVars

\* lines 431-434
MainFinished ==
    /\ Receiving("Finished")
    /\ mainPc' = "finished"
    /\ resultQ' = Tail(resultQ)
    /\ UNCHANGED <<manifest, toDeliver, workQ, worker, thread_context, partsOnDisk, probe>>
    /\ UNCHANGED logs
    /\ UNCHANGED exitVars
    /\ UNCHANGED fsVars

\* a Killed that is taken off the queue and ignored
MainKilled_continue ==
    /\ Receiving("Killed")
    /\ mainPc' = mainPc
    /\ resultQ' = Tail(resultQ)
    /\ UNCHANGED <<manifest, toDeliver, workQ, worker, thread_context, partsOnDisk, probe>>
    /\ UNCHANGED logs
    /\ UNCHANGED exitVars
    /\ UNCHANGED fsVars

\* lines 427-430: Killed leaves the loop
MainKilled ==
    /\ Receiving("Killed")
    /\ mainPc' = "killed"
    /\ resultQ' = Tail(resultQ)
    /\ UNCHANGED <<manifest, toDeliver, workQ, worker, thread_context, partsOnDisk, probe>>
    /\ UNCHANGED logs
    /\ UNCHANGED exitVars
    /\ UNCHANGED fsVars

Main ==
    \/ MainFileInfo
    \/ MainFileChunk
    \/ MainFinishReadImage
    \/ MainFinishWriteParts
    \/ MainFinishBuildParent
    \/ MainFinished

WorkerStep(w) ==
    \/ WorkerRecv(w)
    \/ WorkerReadImage(w)
    \/ WorkerWriteParts(w)
    \/ WorkerBuildParent(w)
    \/ WorkerExit(w)

(***************************************************************************)
(* The process around the coordinator: render() of src/src/main.rs         *)
(***************************************************************************)
\* main.rs lines 788-795: after the loop (or while a panic of the coordinator
\* unwinds) the closure ends; send_work, recv_work, send_result and
\* recv_result are dropped and the messages left in the result channel with
\* them.  The file system session is joined: the game delivers nothing more.
Teardown ==
    /\ mainPc \in {"finished", "killed", "panicked"}
    /\ endpoints = "open"
    /\ endpoints' = "dropped"
    /\ resultQ' = << >>
    /\ UNCHANGED <<manifest, toDeliver, workQ, worker, thread_context, mainPc, partsOnDisk,
                   probe, ctrlc, exitStatus>>
    /\ UNCHANGED logs
    /\ UNCHANGED fsVars

\* the exit status of main(): crossbeam::scope joins the workers; a panic of
\* the coordinator is resumed and ends the process with status 101, a panic
\* of a worker is printed (main.rs lines 796-798) and main returns
ExitCode(pc) == IF pc = "panicked" THEN 101 ELSE 0

\* main.rs lines 550-559 and 795-799
ProcessExit ==
    /\ endpoints = "dropped"
    /\ exitStatus = << >>
    /\ \A w \in Workers : worker[w] \in {Exited, Panicked}
    /\ exitStatus' = <<ExitCode(mainPc)>>
    /\ UNCHANGED <<manifest, toDeliver, resultQ, workQ, worker, thread_context, mainPc,
                   partsOnDisk, probe, ctrlc, endpoints>>
    /\ UNCHANGED logs
    /\ UNCHANGED fsVars

Process ==
    \/ Teardown
    \/ ProcessExit

Next ==
    \/ \E f \in toDeliver : Deliver(f)
    \/ \E w \in Workers : WorkerStep(w)
    \/ Main
    \/ Process

Spec == Init /\ [][Next]_vars

\* the game closes every file it opened, the coordinator thread and every
\* worker thread keep running
FairSpec ==
    /\ Spec
    /\ WF_vars(\E f \in toDeliver : Deliver(f))
    /\ WF_vars(Main)
    /\ \A w \in Workers : WF_vars(WorkerStep(w))
    /\ WF_vars(Process)

(***************************************************************************)
(* Runs on machines of different sizes: spawn_threads starts one worker    *)
(* for each unit of available_parallelism(), from 1 to NumWorkers          *)
(***************************************************************************)
\* line 372: the workers that are started; a worker that is not started
\* never takes a work item
Spawned(n) == [w \in Workers |-> IF w <= n THEN Idle ELSE Exited]

InitSched ==
    /\ manifest \in RunManifests
    /\ toDeliver = {InfoFile} \cup ChunkFiles(manifest)
    /\ probe = NoProbe
    /\ ctrlc = 0
    /\ worker \in {Spawned(n) : n \in 1..NumWorkers}
    /\ resultQ = << >>
    /\ workQ = << >>
    /\ thread_context = << >>
    /\ mainPc = "loop"
    /\ mapIndex = << >>
    /\ partsOnDisk = EmptyBag
    /\ buildLog = EmptyBag
    /\ writeLog = EmptyBag
    /\ doneLog = EmptyBag
    /\ finishedSent = 0
    /\ endpoints = "open"
    /\ exitStatus = << >>
    /\ tilesFS = NewTilesFS
    /\ fsLog = << >>

SchedSpec == InitSched /\ [][Next]_vars

(***************************************************************************)
(* Runs the user may interrupt: the ctrlc handler of main.rs sends Killed  *)
(***************************************************************************)
\* main.rs lines 617-620
CtrlC ==
    /\ ctrlc > 0
    /\ endpoints = "open"
    /\ ctrlc' = ctrlc - 1
    /\ resultQ' = Append(resultQ, Killed)
    /\ UNCHANGED <<manifest, toDeliver, workQ, worker, thread_context, mainPc, partsOnDisk,
                   probe, endpoints, exitStatus>>
    /\ UNCHANGED logs
    /\ UNCHANGED fsVars

KillManifests ==
    {<< >>}
    \cup {<<SurfaceInfo("nauvis", c)>> :
             c \in {<<Chunk(0, 0)>>, <<Chunk(0, 0), Chunk(1, 0)>>, <<Chunk(-1, -1), Chunk(0, 0)>>}}

InitKill ==
    /\ manifest \in KillManifests
    /\ toDeliver = {InfoFile} \cup ChunkFiles(manifest)
    /\ probe = NoProbe
    /\ ctrlc = MaxInterrupts
    /\ InitEngine

NextKill ==
    \/ Next
    \/ CtrlC
    \/ MainKilled

KillSpec == InitKill /\ [][NextKill]_vars

(***************************************************************************)
(* Runs in which the game may also write a chunk image that the manifest  *)
(* does not list                                                           *)
(***************************************************************************)
OpenManifests ==
    {<<SurfaceInfo("nauvis", c)>> : c \in {<<Chunk(0, 0)>>, <<Chunk(0, 0), Chunk(1, 0)>>}}

\* chunk images of a chunk next to the listed ones and of another surface
StrayFiles == {ChunkFile("nauvis", 1, 1), ChunkFile("factory", 0, 0)}

InitOpen ==
    /\ manifest \in OpenManifests
    /\ \E extra \in {{}} \cup {{f} : f \in StrayFiles} :
          toDeliver = {InfoFile} \cup ChunkFiles(manifest) \cup extra
    /\ probe = NoProbe
    /\ ctrlc = 0
    /\ InitEngine

OpenSpec == InitOpen /\ [][Next]_vars

(***************************************************************************)
(* Runs in which the game may close a chunk image before info.json: the    *)
(* file system hands over every file when it is released                   *)
(***************************************************************************)
\* fuse.rs line 137 and ldpreload.rs lines 42-53: a chunk image closed while
\* info.json is still open
DeliverEarly(f) ==
    /\ f \in toDeliver
    /\ f # InfoFile
    /\ InfoFile \in toDeliver
    /\ endpoints = "open"
    /\ toDeliver' = toDeliver \ {f}
    /\ resultQ' = Append(resultQ, f)
    /\ UNCHANGED <<manifest, workQ, worker, thread_context, mainPc, partsOnDisk, probe>>
    /\ UNCHANGED logs
    /\ UNCHANGED exitVars
    /\ UNCHANGED fsVars

NextEarly ==
    \/ Next
    \/ \E f \in toDeliver : DeliverEarly(f)

EarlySpec == InitOpen /\ [][NextEarly]_vars

(***************************************************************************)
(* Runs in which the game writes each chunk image as .bmp or as .png       *)
(***************************************************************************)
Extensions == {"bmp", "png"}

ImageFile(s, x, y, e) == [ChunkFile(s, x, y) EXCEPT !.ext = e]

InitExt ==
    /\ manifest \in OpenManifests
    /\ \E ext \in [ChunkFiles(manifest) -> Extensions] :
          toDeliver = {InfoFile}
                      \cup {ImageFile(f.name[1], f.name[2], f.name[3], ext[f]) :
                               f \in ChunkFiles(manifest)}
    /\ probe = NoProbe
    /\ ctrlc = 0
    /\ InitEngine

ExtSpec == InitExt /\ [][Next]_vars

(***************************************************************************)
(* Runs in which the game writes a file a second time                      *)
(***************************************************************************)
\* the second write of a file: the same name (and extension), closed again
Again(f) == f @@ [copy |-> 2, of |-> DOMAIN f]

\* info.json is written twice
InitReplan ==
    /\ manifest \in OpenManifests
    /\ toDeliver = {InfoFile, Again(InfoFile)} \cup ChunkFiles(manifest)
    /\ probe = NoProbe
    /\ ctrlc = 0
    /\ InitEngine

ReplanSpec == InitReplan /\ [][Next]_vars

\* one listed chunk image is written twice
InitDup ==
    /\ manifest \in OpenManifests
    /\ \E f \in ChunkFiles(manifest) :
          toDeliver = {InfoFile, Again(f)} \cup ChunkFiles(manifest)
    /\ probe = NoProbe
    /\ ctrlc = 0
    /\ InitEngine

DupSpec == InitDup /\ [][Next]_vars

(***************************************************************************)
(* Runs on any input stream: files written twice, chunk images the         *)
(* manifest does not list, chunk images closed before info.json            *)
(***************************************************************************)
\* the files the game may write besides info.json and the listed chunks
ExtraFiles(info) ==
    {Again(InfoFile)} \cup {Again(f) : f \in ChunkFiles(info)} \cup StrayFiles

InitAny ==
    /\ manifest \in OpenManifests
    /\ \E extra \in {e \in SUBSET ExtraFiles(manifest) : Cardinality(e) <= MaxExtras} :
          toDeliver = {InfoFile} \cup ChunkFiles(manifest) \cup extra
    /\ probe = NoProbe
    /\ ctrlc = 0
    /\ InitEngine

AnySpec == InitAny /\ [][NextEarly]_vars

(***************************************************************************)
(* The file system alone: the kernel calls create, write and release of    *)
(* the TilesFS in any order and with any inode; the receiver of the        *)
(* channel outlives the file system (main.rs lines 607-612 and 790)        *)
(***************************************************************************)
FsPaths == {"info.json", "nauvis,0,0.bmp"}
FsInodes == 1..(STARTING_INODE + MaxInodes)
FsOffsets == {0, 1}
FsPayloads == {<<1>>, <<2>>}

\* fuse.rs lines 70-72
get_file(fs, inode) == IF inode \in DOMAIN fs.files THEN <<fs.files[inode]>> ELSE << >>

\* a create_file that hands out the lowest inode that is not in the table
create_file_lowest(fs, path) ==
    LET inode == CHOOSE i \in STARTING_INODE..fs.next_inode :
                    /\ i \notin DOMAIN fs.files
                    /\ \A j \in STARTING_INODE..(i - 1) : j \in DOMAIN fs.files
    IN  [fs    |-> [fs EXCEPT !.next_inode = @ + 1,
                              !.files = (inode :> VirtualFile(path)) @@ @],
         inode |-> inode]

\* fuse.rs lines 73-78
create_file(fs, path) ==
    [fs    |-> [fs EXCEPT !.next_inode = @ + 1,
                          !.files = (fs.next_inode :> VirtualFile(path)) @@ @],
     inode |-> fs.next_inode]

CanCall ==
    /\ ~tilesFS.panicked
    /\ Len(fsLog) < MaxFsOps

\* fuse.rs lines 110-124
TilesFS_create(name) ==
    /\ CanCall
    /\ Len(SelectSeq(fsLog, LAMBDA c : c.op = "create")) < MaxInodes
    /\ \E r \in {create_file(tilesFS, name)} :
          /\ tilesFS' = r.fs
          /\ fsLog' = Append(fsLog, [op |-> "create", path |-> name, inode |-> r.inode])
    /\ UNCHANGED <<manifest, toDeliver, resultQ, workQ, worker, thread_context, mainPc,
                   partsOnDisk, probe>>
    /\ UNCHANGED logs
    /\ UNCHANGED exitVars

\* a write that answers an unknown inode without doing anything
TilesFS_write_silent(inode, offset, data) ==
    /\ CanCall
    /\ tilesFS' = IF get_file(tilesFS, inode) = << >>
                  THEN tilesFS
                  ELSE [tilesFS EXCEPT !.files[inode].data = @ \o data]
    /\ fsLog' = Append(fsLog, [op |-> "write", inode |-> inode, offset |-> offset,
                               data |-> data])
    /\ UNCHANGED <<manifest, toDeliver, resultQ, workQ, worker, thread_context, mainPc,
                   partsOnDisk, probe>>
    /\ UNCHANGED logs
    /\ UNCHANGED exitVars

\* fuse.rs lines 93-108: write_all appends to the Vec, whatever the offset;
\* get_file(inode).unwrap() panics when the inode is not in the table
TilesFS_write(inode, offset, data) ==
    /\ CanCall
    /\ tilesFS' = IF get_file(tilesFS, inode) = << >>
                  THEN [tilesFS EXCEPT !.panicked = TRUE]
                  ELSE [tilesFS EXCEPT !.files[inode].data = @ \o data]
    /\ fsLog' = Append(fsLog, [op |-> "write", inode |-> inode, offset |-> offset,
                               data |-> data])
    /\ UNCHANGED <<manifest, toDeliver, resultQ, workQ, worker, thread_context, mainPc,
                   partsOnDisk, probe>>
    /\ UNCHANGED logs
    /\ UNCHANGED exitVars

\* fuse.rs lines 126-140: files.remove(&inode).unwrap() panics when the inode
\* is not in the table, before anything is sent
TilesFS_release(inode) ==
    /\ CanCall
    /\ IF inode \in DOMAIN tilesFS.files
       THEN /\ tilesFS' = [tilesFS EXCEPT
                             !.files = [i \in DOMAIN @ \ {inode} |-> @[i]]]
            /\ resultQ' = Append(resultQ, File(tilesFS.files[inode]))
       ELSE /\ tilesFS' = [tilesFS EXCEPT !.panicked = TRUE]
            /\ resultQ' = resultQ
    /\ fsLog' = Append(fsLog, [op |-> "release", inode |-> inode])
    /\ UNCHANGED <<manifest, toDeliver, workQ, worker, thread_context, mainPc,
                   partsOnDisk, probe>>
    /\ UNCHANGED logs
    /\ UNCHANGED exitVars

InitFuse ==
    /\ manifest = << >>
    /\ toDeliver = {}
    /\ probe = NoProbe
    /\ ctrlc = 0
    /\ InitEngine

NextFuse ==
    \/ \E name \in FsPaths : TilesFS_create(name)
    \/ \E inode \in FsInodes, offset \in FsOffsets, data \in FsPayloads :
          TilesFS_write(inode, offset, data)
    \/ \E inode \in FsInodes : TilesFS_release(inode)

FuseSpec == InitFuse /\ [][NextFuse]_vars

(***************************************************************************)
(* The preloaded library: ldpreload.rs replaces the game's saveImage by    *)
(* save_image, which hands every chunk image to the workers directly; the  *)
(* channels are statics and are never closed.  info.json may be malformed. *)
(***************************************************************************)
\* an info.json whose surface entry lacks the chunks field
Malformed == <<[name |-> "nauvis"]>>

\* ldpreload.rs lines 68-95: save_image sends TileWriteParts for the chunk
SaveImage(f) ==
    /\ f \in toDeliver
    /\ f # InfoFile
    /\ InfoFile \notin toDeliver
    /\ toDeliver' = toDeliver \ {f}
    /\ workQ' = Append(workQ, TileWriteParts(Tile(f.name[1], MAX_ZOOM, f.name[2], f.name[3])))
    /\ writeLog' = writeLog (+) SetToBag({Tile(f.name[1], MAX_ZOOM, f.name[2], f.name[3])})
    /\ UNCHANGED <<manifest, resultQ, worker, thread_context, mainPc, partsOnDisk, probe>>
    /\ UNCHANGED <<mapIndex, buildLog, doneLog, finishedSent>>
    /\ UNCHANGED exitVars
    /\ UNCHANGED fsVars

\* a thread of a process that a signal has ended
Terminated == [type |-> "Terminated"]

\* ldpreload.rs lines 119-123: when main_loop returns the library sends
\* SIGTERM to its own process, which is the game: its threads stop where
\* they are and the game closes no further file
SigTerm ==
    /\ mainPc \in {"finished", "killed"}
    /\ exitStatus = << >>
    /\ exitStatus' = <<"SIGTERM">>
    /\ worker' = [w \in Workers |-> Terminated]
    /\ toDeliver' = {}
    /\ UNCHANGED <<manifest, resultQ, workQ, thread_context, mainPc, partsOnDisk, probe,
                   ctrlc, endpoints>>
    /\ UNCHANGED logs
    /\ UNCHANGED fsVars

InitHook ==
    /\ \/ manifest \in OpenManifests /\ toDeliver = {InfoFile} \cup ChunkFiles(manifest)
       \/ manifest = Malformed /\ toDeliver = {InfoFile, ChunkFile("nauvis", 0, 0)}
    /\ probe = NoProbe
    /\ ctrlc = 0
    /\ InitEngine

\* a panic of main_loop leaves the worker threads running: crossbeam::scope
\* joins them before it resumes the panic, and their channel stays open
NextHook ==
    \/ Deliver(InfoFile)
    \/ \E f \in toDeliver : SaveImage(f)
    \/ \E w \in Workers : WorkerRecv(w) \/ WorkerWriteParts(w) \/ WorkerBuildParent(w)
    \/ MainFileInfo
    \/ MainFinishWriteParts
    \/ MainFinishBuildParent
    \/ MainFinished
    \/ SigTerm

HookSpec == InitHook /\ [][NextHook]_vars

(***************************************************************************)
(* Runs in which a stage of a worker may fail: the bytes of a chunk image  *)
(* do not decode, or the file system refuses a directory or a part         *)
(***************************************************************************)
\* lines 379-392: image::load_from_memory(&data).unwrap() in the ReadImage arm
\* and the unwraps of tile_write_parts (lines 280, 297, 299) panic the worker
\* thread before its send
WorkerStageFails(w) ==
    /\ worker[w].type \in {"ReadImage", "TileWriteParts"}
    /\ worker' = [worker EXCEPT ![w] = Panicked]
    /\ UNCHANGED <<manifest, toDeliver, resultQ, workQ, thread_context, mainPc, partsOnDisk,
                   probe>>
    /\ UNCHANGED logs
    /\ UNCHANGED exitVars
    /\ UNCHANGED fsVars

InitFail ==
    /\ manifest \in OpenManifests
    /\ toDeliver = {InfoFile} \cup ChunkFiles(manifest)
    /\ probe = NoProbe
    /\ ctrlc = 0
    /\ InitEngine

NextFail ==
    \/ Next
    \/ \E w \in Workers : WorkerStageFails(w)

FailSpec == InitFail /\ [][NextFail]_vars

(***************************************************************************)
(* Planning alone: info.json is closed and the coordinator plans, for all  *)
(* manifests within MaxCoord and MaxChunks                                 *)
(***************************************************************************)
InitPlan ==
    /\ IsManifest(manifest, MaxCoord, MaxChunks)
    /\ toDeliver = {InfoFile} \cup ChunkFiles(manifest)
    /\ probe = NoProbe
    /\ ctrlc = 0
    /\ InitEngine

NextPlan ==
    \/ Deliver(InfoFile)
    \/ MainFileInfo

PlanSpec == InitPlan /\ [][NextPlan]_vars

(***************************************************************************)
(* The coordinate algebra alone, applied to a tile of a bounded range      *)
(***************************************************************************)
ProbeTiles ==
    {Tile(s, z, x, y) : s \in Surfaces, z \in (MAX_ZOOM - ZoomLevels + 1)..MAX_ZOOM,
                        x \in (-MaxTileCoord)..MaxTileCoord,
                        y \in (-MaxTileCoord)..MaxTileCoord}

InitAlg ==
    /\ probe \in {[state |-> "input", t |-> t] : t \in ProbeTiles}
    /\ manifest = << >>
    /\ toDeliver = {}
    /\ ctrlc = 0
    /\ InitEngine

ApplyAlgebra ==
    /\ probe.state = "input"
    /\ probe' = [state       |-> "done",
                 t           |-> probe.t,
                 zoom_out    |-> zoom_out(probe.t),
                 zoom_in     |-> zoom_in(probe.t),
                 round_trip  |-> zoom_out(zoom_in(probe.t)),
                 children    |-> children(probe.t),
                 parents     |-> [i \in 1..4 |-> zoom_out(children(probe.t)[i])]]
    /\ UNCHANGED <<manifest, toDeliver, resultQ, workQ, worker, thread_context, mainPc,
                   partsOnDisk>>
    /\ UNCHANGED logs
    /\ UNCHANGED exitVars
    /\ UNCHANGED fsVars

AlgSpec == InitAlg /\ [][ApplyAlgebra]_vars

(***************************************************************************)
(* The flattening loop of tile_write_parts alone, applied to the RGBA      *)
(* bytes of a part                                                         *)
(***************************************************************************)
\* a pixel that is flattened only below alpha 0x7f
FlattenPixel_below(p) == IF p[4] < 127 THEN <<27, 45, 51, 255>> ELSE p

\* lines 289-296: the body of the loop on one chunk p of four bytes
FlattenPixel(p) == IF p[4] <= 127 THEN <<27, 45, 51, 255>> ELSE p

\* line 289: for p in bytes.chunks_mut(4), from byte i on
RECURSIVE FlattenFrom(_, _)
FlattenFrom(bytes, i) ==
    IF i > Len(bytes)
    THEN << >>
    ELSE FlattenPixel(SubSeq(bytes, i, i + 3)) \o FlattenFrom(bytes, i + 4)

FlattenBytes(bytes) == FlattenFrom(bytes, 1)

\* the first pixel takes every alpha of a u8 with two colours, one of them the
\* background itself; the pixels after it are taken from the edges of the
\* two alpha ranges
FirstPixels == {<<c[1], c[2], c[3], a>> : c \in {<<27, 45, 51>>, <<200, 100, 0>>}, a \in 0..255}
EdgePixels == {<<1, 2, 3, 0>>, <<1, 2, 3, 127>>, <<1, 2, 3, 128>>, <<9, 9, 9, 255>>}

RECURSIVE PixelTails(_)
PixelTails(n) ==
    IF n = 0 THEN {<< >>} ELSE {e \o t : e \in EdgePixels, t \in PixelTails(n - 1)}

InitPixel ==
    /\ probe \in {[state |-> "bytes", bytes |-> f \o t] :
                    f \in FirstPixels, t \in PixelTails(NumPixels - 1)}
    /\ manifest = << >>
    /\ toDeliver = {}
    /\ ctrlc = 0
    /\ InitEngine

ApplyFlatten ==
    /\ probe.state = "bytes"
    /\ probe' = [state |-> "flattened", bytes |-> probe.bytes,
                 out |-> FlattenBytes(probe.bytes)]
    /\ UNCHANGED <<manifest, toDeliver, resultQ, workQ, worker, thread_context, mainPc,
                   partsOnDisk>>
    /\ UNCHANGED logs
    /\ UNCHANGED exitVars
    /\ UNCHANGED fsVars

PixelSpec == InitPixel /\ [][ApplyFlatten]_vars

(***************************************************************************)
(* Properties                                                              *)
(***************************************************************************)
RECURSIVE Pow2(_)
Pow2(n) == IF n = 0 THEN 1 ELSE 2 * Pow2(n - 1)

\* the floor and the ceiling of the base-2 logarithm of n >= 1, by their
\* defining inequalities
FloorLog2(n) == CHOOSE k \in 0..31 : Pow2(k) <= n /\ n < Pow2(k + 1)
CeilLog2(n) == CHOOSE k \in 0..31 : n <= Pow2(k) /\ (k = 0 \/ Pow2(k - 1) < n)

SetMax(S) == CHOOSE m \in S : \A v \in S : v <= m

\* max(1 - min_x, 1 - min_y, max_x, max_y) over a non-empty chunk list
ChunkExtent(chunks) ==
    SetMax(UNION {{1 - chunks[j].x, 1 - chunks[j].y, chunks[j].x, chunks[j].y} :
                    j \in DOMAIN chunks})

\* the tile of zoom z that contains chunk (x, y) of surface s
Ancestor(s, x, y, z) ==
    LET w == Pow2(MAX_ZOOM - z)
    IN  Tile(s, z, CHOOSE q \in (-(x * x) - 1)..(x * x) : q * w <= x /\ x < (q + 1) * w,
                   CHOOSE q \in (-(y * y) - 1)..(y * y) : q * w <= y /\ y < (q + 1) * w)

WithChunks(info) == {i \in DOMAIN info : Len(info[i].chunks) > 0}

\* the tiles of the chunk-to-root paths of a manifest, the root level of a
\* surface being the zoom above its min_zoom
PathTiles(info, min_zoom) ==
    UNION {UNION {{Ancestor(info[i].name, info[i].chunks[j].x, info[i].chunks[j].y, z) :
                     z \in (min_zoom[info[i].name] + 1)..MAX_ZOOM}
                  : j \in DOMAIN info[i].chunks}
           : i \in WithChunks(info)}

\* C6 - Planning completeness: after planning, every tile on the path from a
\* listed chunk's tile at MAX_ZOOM down to zoom min_zoom + 1 of its surface
\* is a key of the registry, in state Waiting.
C6_PlanningCompleteness ==
    HasContext =>
        /\ \A i \in WithChunks(manifest) : manifest[i].name \in DOMAIN tc.min_zoom
        /\ \A t \in PathTiles(manifest, tc.min_zoom) :
              t \in DOMAIN tc.tiles /\ tc.tiles[t] = "Waiting"

\* a planned manifest in which two different chunks of one surface share an
\* ancestor, so that the second walk stopped at a tile already present
C6_Witness ==
    /\ HasContext
    /\ \E i \in DOMAIN manifest : \E j, k \in DOMAIN manifest[i].chunks :
          /\ j < k
          /\ manifest[i].chunks[j] # manifest[i].chunks[k]
          /\ Ancestor(manifest[i].name, manifest[i].chunks[j].x, manifest[i].chunks[j].y,
                      MAX_ZOOM - 1)
             = Ancestor(manifest[i].name, manifest[i].chunks[k].x, manifest[i].chunks[k].y,
                        MAX_ZOOM - 1)

\* C7 - Planning minimality: after planning, the registry's keys are exactly
\* the union of the chunk-to-root paths, total_tiles is the size of that union,
\* and min_zoom has an entry exactly for the surfaces that have chunks.
C7_PlanningMinimality ==
    HasContext =>
        /\ DOMAIN tc.min_zoom = {manifest[i].name : i \in WithChunks(manifest)}
        /\ LET paths == PathTiles(manifest, tc.min_zoom)
           IN  /\ DOMAIN tc.tiles = paths
               /\ tc.total_tiles = Cardinality(paths)
        /\ \A i \in DOMAIN manifest \ WithChunks(manifest) :
              \A t \in DOMAIN tc.tiles : t.surface # manifest[i].name

\* a planned manifest with a surface without chunks next to a surface with a
\* duplicate chunk entry
C7_Witness ==
    /\ HasContext
    /\ \E i, k \in DOMAIN manifest :
          /\ Len(manifest[i].chunks) = 0
          /\ Len(manifest[k].chunks) = 2
          /\ manifest[k].chunks[1] = manifest[k].chunks[2]
          /\ tc.total_tiles = ZOOM_MARGIN

\* C8 (as stated) - min_zoom of a surface with chunks is
\* MAX_ZOOM - ceil_log2(max(1-min_x, 1-min_y, max_x, max_y)) - 6.
C8_MinZoomCeil ==
    HasContext =>
        \A i \in WithChunks(manifest) :
            /\ manifest[i].name \in DOMAIN tc.min_zoom
            /\ tc.min_zoom[manifest[i].name]
                 = MAX_ZOOM - CeilLog2(ChunkExtent(manifest[i].chunks)) - 6

\* C8 (amended) - min_zoom of a surface with chunks is
\* MAX_ZOOM - floor_log2(max(1-min_x, 1-min_y, max_x, max_y)) - 6.
C8_MinZoomFloor ==
    HasContext =>
        \A i \in WithChunks(manifest) :
            /\ manifest[i].name \in DOMAIN tc.min_zoom
            /\ tc.min_zoom[manifest[i].name]
                 = MAX_ZOOM - FloorLog2(ChunkExtent(manifest[i].chunks)) - 6

\* a planned surface whose extent is 3, where floor and ceiling differ
C8_Witness ==
    /\ HasContext
    /\ \E i \in WithChunks(manifest) :
          /\ ChunkExtent(manifest[i].chunks) = 3
          /\ tc.min_zoom[manifest[i].name] = 13

\* C10 - Coordinate algebra laws: zoom_out(zoom_in(t)) = t; children(t) are
\* the tiles at offsets (0,0),(1,0),(0,1),(1,1) from zoom_in(t), in that order,
\* pairwise distinct, each with zoom_out(child) = t; zoom_out is floor
\* division, so the parent of (s, z, -1, -1) is (s, z-1, -1, -1).
C10_CoordinateAlgebra ==
    probe.state = "done" =>
        LET t == probe.t
            order == << <<0, 0>>, <<1, 0>>, <<0, 1>>, <<1, 1>> >>
        IN  /\ probe.round_trip = t
            /\ probe.zoom_in = Tile(t.surface, t.zoom + 1, 2 * t.x, 2 * t.y)
            /\ DOMAIN probe.children = 1..4
            /\ \A i \in 1..4 :
                  /\ probe.children[i].surface = probe.zoom_in.surface
                  /\ probe.children[i].zoom = probe.zoom_in.zoom
                  /\ probe.children[i].x = probe.zoom_in.x + order[i][1]
                  /\ probe.children[i].y = probe.zoom_in.y + order[i][2]
                  /\ probe.parents[i] = t
            /\ \A i, j \in 1..4 : i # j => probe.children[i] # probe.children[j]
            /\ probe.zoom_out.surface = t.surface
            /\ probe.zoom_out.zoom = t.zoom - 1
            /\ 2 * probe.zoom_out.x <= t.x /\ t.x <= 2 * probe.zoom_out.x + 1
            /\ 2 * probe.zoom_out.y <= t.y /\ t.y <= 2 * probe.zoom_out.y + 1
            /\ (t.x = -1 /\ t.y = -1) =>
                  probe.zoom_out = Tile(t.surface, t.zoom - 1, -1, -1)

\* the algebra applied to the tile (-1, -1) of zoom MAX_ZOOM
C10_Witness ==
    /\ probe.state = "done"
    /\ probe.t.zoom = MAX_ZOOM /\ probe.t.x = -1 /\ probe.t.y = -1
    /\ probe.zoom_out.x = -1 /\ probe.zoom_out.y = -1

(***************************************************************************)
(* Properties of a run                                                     *)
(***************************************************************************)
\* nothing is left to do: every file is delivered, no work item is queued or
\* held, and the coordinator has left its loop or has nothing to receive
Stopped ==
    /\ toDeliver = {}
    /\ workQ = << >>
    /\ \A w \in Workers : worker[w] \in {Idle, Exited, Panicked}
    /\ mainPc # "loop" \/ resultQ = << >>

HasChunks == WithChunks(manifest) # {}

\* the integer q with 2q <= v <= 2q + 1
FloorHalf(v) == CHOOSE q \in (-(v * v) - 1)..(v * v + 1) : 2 * q <= v /\ v <= 2 * q + 1

\* the four children of tile p
ChildSet(p) == {Tile(p.surface, p.zoom + 1, 2 * p.x + dx, 2 * p.y + dy) :
                  dx \in {0, 1}, dy \in {0, 1}}

\* the coordinator is handling the FinishWriteParts at the head of its channel
HandlingPartsWritten ==
    /\ Receiving("FinishWriteParts")
    /\ HasContext
    /\ thread_context' # thread_context

\* the coordinator sends TileBuildParent for parent p in this step
Dispatching(p) ==
    /\ Len(workQ') = Len(workQ) + 1
    /\ workQ'[Len(workQ')].type = "TileBuildParent"
    /\ workQ'[Len(workQ')].parent = p

\* C1 - Termination: when the manifest lists at least one chunk, is delivered
\* first and every listed chunk image is delivered once, the coordinator
\* eventually sends Finished, and whenever it sends Finished
\* loaded_tiles = total_tiles.
C1_Termination ==
    /\ HasChunks ~> (finishedSent >= 1)
    /\ [][finishedSent' # finishedSent =>
            thread_context'[1].loaded_tiles = thread_context'[1].total_tiles]_vars

\* Finished was sent at the end of a run that built a parent from more than
\* one child
C1_Witness ==
    /\ finishedSent = 1
    /\ HasContext
    /\ tc.total_tiles > 0
    /\ tc.loaded_tiles = tc.total_tiles
    /\ \E p \in BagToSet(buildLog) : Cardinality(ChildSet(p) \cap DOMAIN tc.tiles) >= 2

\* C2 - Termination with zero tiles: once a manifest without any chunk is
\* planned, the coordinator eventually sends Finished with
\* loaded_tiles = total_tiles = 0.
C2_ZeroTileTermination ==
    (~HasChunks /\ HasContext) ~>
        (finishedSent >= 1 /\ tc.loaded_tiles = 0 /\ tc.total_tiles = 0)

\* C3 - Exactly-once parent build: no parent is ever dispatched to
\* TileBuildParent twice, only planned non-leaf tiles are dispatched, and when
\* the run has stopped every planned non-leaf tile has been dispatched once.
C3_ExactlyOnceParentBuild ==
    /\ \A p \in BagToSet(buildLog) :
          /\ CopiesIn(p, buildLog) = 1
          /\ HasContext /\ p \in DOMAIN tc.tiles /\ p.zoom < MAX_ZOOM
    /\ (Stopped /\ HasContext) =>
          \A p \in DOMAIN tc.tiles : p.zoom < MAX_ZOOM => CopiesIn(p, buildLog) = 1

\* a stopped run in which a parent with three planned children was built
C3_Witness ==
    /\ Stopped
    /\ HasContext
    /\ \E p \in BagToSet(buildLog) : Cardinality(ChildSet(p) \cap DOMAIN tc.tiles) = 3

\* C4 - Parent-readiness discipline: when the coordinator handles
\* FinishWriteParts(tile) and p = parent(tile) has p.zoom > min_zoom, it
\* dispatches TileBuildParent(p) iff, with tile marked Loaded, every child of
\* p is Loaded or absent from the registry; and after a dispatch every child
\* of p present in the registry is Processed.
C4_ParentReadiness ==
    [][HandlingPartsWritten =>
         LET tile == Head(resultQ).tile
             p == Tile(tile.surface, tile.zoom - 1, FloorHalf(tile.x), FloorHalf(tile.y))
             reg == (tile :> "Loaded") @@ tc.tiles
         IN  (tile.surface \in DOMAIN tc.min_zoom /\ p.zoom > tc.min_zoom[tile.surface]) =>
                /\ Dispatching(p) <=>
                      \A c \in ChildSet(p) : c \notin DOMAIN reg \/ reg[c] = "Loaded"
                /\ Dispatching(p) =>
                      \A c \in ChildSet(p) \cap DOMAIN thread_context'[1].tiles :
                          thread_context'[1].tiles[c] = "Processed"
    ]_vars

\* a TileBuildParent with two children is queued and its children are Processed
C4_Witness ==
    /\ HasContext
    /\ \E i \in DOMAIN workQ :
          /\ workQ[i].type = "TileBuildParent"
          /\ Len(workQ[i].children) = 2
          /\ \A c \in ChildSet(workQ[i].parent) \cap DOMAIN tc.tiles : tc.tiles[c] = "Processed"
          /\ Cardinality(ChildSet(workQ[i].parent) \cap DOMAIN tc.tiles) = 2

\* C5 - Ordering: a TileBuildParent(p) has been dispatched only if the
\* coordinator has handled the FinishWriteParts of every planned child of p.
C5_BuildAfterChildren ==
    \A p \in BagToSet(buildLog) :
        /\ HasContext
        /\ \A c \in ChildSet(p) \cap DOMAIN tc.tiles : CopiesIn(c, doneLog) >= 1

\* a parent with two planned children has been dispatched
C5_Witness ==
    /\ HasContext
    /\ \E p \in BagToSet(buildLog) :
          /\ Cardinality(ChildSet(p) \cap DOMAIN tc.tiles) = 2
          /\ \A c \in ChildSet(p) \cap DOMAIN tc.tiles : CopiesIn(c, doneLog) = 1

\* C9 - Zoom-range invariant: every registry tile of surface s, and every tile
\* a TileWriteParts or TileBuildParent was dispatched for, has its zoom in
\* min_zoom[s] + 1 .. MAX_ZOOM.
C9_ZoomRange ==
    LET InRange(t) == /\ HasContext
                      /\ t.surface \in DOMAIN tc.min_zoom
                      /\ tc.min_zoom[t.surface] + 1 <= t.zoom
                      /\ t.zoom <= MAX_ZOOM
    IN  /\ HasContext => \A t \in DOMAIN tc.tiles : InRange(t)
        /\ \A t \in BagToSet(writeLog) \cup BagToSet(buildLog) : InRange(t)

\* a root tile (zoom min_zoom + 1) has completed write-parts, stays Loaded and
\* the run has stopped without a build of its parent
C9_Witness ==
    /\ Stopped
    /\ HasContext
    /\ \E t \in DOMAIN tc.tiles :
          /\ t.zoom = tc.min_zoom[t.surface] + 1
          /\ tc.tiles[t] = "Loaded"
          /\ CopiesIn(t, writeLog) = 1

\* the registry tiles that have completed write-parts
NotWaiting(ctx) == {t \in DOMAIN ctx.tiles : ctx.tiles[t] # "Waiting"}

C12_RegistryPrePopulated ==
    [][(HasContext /\ HasContext') =>
          /\ DOMAIN thread_context'[1].tiles = DOMAIN tc.tiles
          /\ doneLog' # doneLog =>
                /\ Head(resultQ).tile \in DOMAIN tc.tiles
                /\ tc.tiles[Head(resultQ).tile] = "Waiting"]_vars

\* the parent of tile t, by the defining inequalities of the floor
ParentOf(t) == Tile(t.surface, t.zoom - 1, FloorHalf(t.x), FloorHalf(t.y))

\* the TileBuildParent items the coordinator sends in this step
SentBuilds ==
    {workQ'[i] : i \in {j \in (Len(workQ) + 1)..Len(workQ') :
                           workQ'[j].type = "TileBuildParent"}}

\* tile t is Loaded when the coordinator reaches the parent dispatch of this
\* step: it was Loaded before the step, or it is the Waiting tile whose
\* FinishWriteParts the step handles (marked Loaded at line 474)
LoadedAtDispatch(t) ==
    \/ tc.tiles[t] = "Loaded"
    \/ /\ tc.tiles[t] = "Waiting"
       /\ Receiving("FinishWriteParts")
       /\ Head(resultQ).tile = t

PartsOf(reg, n) ==
    {<<t.zoom, px + 2 * t.x, py + 2 * t.y>> :
        t \in {u \in DOMAIN reg : u.surface = n}, px \in {0, 1}, py \in {0, 1}}

OnlyMinZoomOf(ctx, n) ==
    [ctx EXCEPT !.min_zoom = [m \in DOMAIN ctx.min_zoom \cap {n} |-> ctx.min_zoom[m]]]

\* C15 - Surface independence: a step that handles the FinishWriteParts of a
\* tile of surface A leaves the state of every registry tile of another
\* surface unchanged, sends a TileBuildParent only for a parent of surface A
\* with children of surface A, and has the same effect when the min_zoom
\* entries of the other surfaces are removed; a map-index has one key per
\* surface of the manifest.
C15_SurfaceIndependence ==
    /\ [](\A i \in DOMAIN mapIndex :
             /\ DOMAIN mapIndex[i] = {manifest[j].name : j \in DOMAIN manifest}
             /\ Cardinality(DOMAIN mapIndex[i]) = Len(manifest))
    /\ [][(HasContext /\ doneLog' # doneLog) =>
            LET t == Head(resultQ).tile
            IN  /\ \A u \in DOMAIN tc.tiles :
                      u.surface # t.surface =>
                          /\ u \in DOMAIN thread_context'[1].tiles
                          /\ thread_context'[1].tiles[u] = tc.tiles[u]
                /\ \A b \in SentBuilds :
                      /\ b.parent.surface = t.surface
                      /\ \A c \in Range(b.children) : c.surface = t.surface
                /\ HandleWriteParts(OnlyMinZoomOf(tc, t.surface), t).work
                      = HandleWriteParts(tc, t).work
                /\ HandleWriteParts(OnlyMinZoomOf(tc, t.surface), t).ctx.tiles
                      = thread_context'[1].tiles]_vars

\* a finished run of two surfaces whose pyramids have the same coordinates,
\* with a map-index of two keys
C15_Witness ==
    /\ mainPc = "finished"
    /\ Len(manifest) = 2
    /\ Len(mapIndex) = 1
    /\ Cardinality(DOMAIN mapIndex[1]) = 2
    /\ \E t, u \in DOMAIN tc.tiles :
          /\ t.surface # u.surface
          /\ t.zoom = u.zoom /\ t.x = u.x /\ t.y = u.y
          /\ tc.tiles[t] = "Processed" /\ tc.tiles[u] = "Processed"

\* the work item worker w is writing the parts of, as a set of tiles
WritingTiles(w) == IF worker[w].type = "TileWriteParts" THEN {worker[w].tile} ELSE {}

\* C16 - Write-once: a TileWriteParts item is sent at most once per tile,
\* different (tile, part) pairs of the registry have different output paths,
\* every output path has been written at most once, and two workers never
\* write parts with a common path at the same time.
C16_WriteOnce ==
    /\ \A t \in BagToSet(writeLog) : CopiesIn(t, writeLog) = 1
    /\ \A path \in BagToSet(partsOnDisk) : CopiesIn(path, partsOnDisk) = 1
    /\ HasContext =>
          Cardinality({get_path(get_tile_parts[i], t) :
                         i \in DOMAIN get_tile_parts, t \in DOMAIN tc.tiles})
            = Cardinality(DOMAIN get_tile_parts) * Cardinality(DOMAIN tc.tiles)
    /\ \A v, w \in Workers :
          v # w =>
              \A t \in WritingTiles(v), u \in WritingTiles(w) :
                  t # u /\ TilePaths(t) \cap TilePaths(u) = {}

\* two workers write the parts of two built parents of the same zoom at the
\* same time, while the parts of their children are on disk
C16_Witness ==
    /\ \E v, w \in Workers :
          /\ v # w
          /\ \E t \in WritingTiles(v), u \in WritingTiles(w) :
                t.zoom = u.zoom /\ t.zoom < MAX_ZOOM /\ t # u
    /\ BagCardinality(partsOnDisk) >= 2 * NUM_PARTS * NUM_PARTS

(***************************************************************************)
(* C17: unique image ownership                                             *)
(***************************************************************************)
\* whether a work item, a worker or a completion carries the image of tile t
Holds(item, t) ==
    IF item.type \in {"ReadImage", "TileWriteParts", "FinishReadImage", "FinishWriteParts"}
    THEN item.tile = t
    ELSE IF item.type = "TileBuildParent"
         THEN t \in Range(item.children)
         ELSE IF item.type = "FinishBuildParent" THEN item.parent = t ELSE FALSE

\* the places that hold the image of tile t
Holders(t) ==
    {<<"work", i>> : i \in {j \in DOMAIN workQ : Holds(workQ[j], t)}}
    \cup {<<"worker", w>> : w \in {v \in Workers : Holds(worker[v], t)}}
    \cup {<<"result", i>> : i \in {j \in DOMAIN resultQ : Holds(resultQ[j], t)}}
    \cup (IF tc.tiles[t] = "Loaded" THEN {<<"registry", 0>>} ELSE {})

\* C17: the image of a tile is in at most one place among the work queue, the
\* workers, the completion queue and the registry; a tile is Loaded in the
\* registry only after its parts were written and before the build of its
\* parent was dispatched; a Waiting tile has had no completion handled and the
\* image of a Processed tile went to the build of its parent
C17_UniqueImageOwnership ==
    HasContext =>
        \A t \in DOMAIN tc.tiles :
            /\ Cardinality(Holders(t)) <= 1
            /\ tc.tiles[t] = "Loaded" =>
                  /\ CopiesIn(t, doneLog) >= 1
                  /\ CopiesIn(ParentOf(t), buildLog) = 0
            /\ tc.tiles[t] = "Waiting" => CopiesIn(t, doneLog) = 0
            /\ tc.tiles[t] = "Processed" =>
                  /\ CopiesIn(ParentOf(t), buildLog) = 1
                  /\ \A h \in Holders(t) :
                        \/ h[1] = "work" /\ workQ[h[2]].type = "TileBuildParent"
                        \/ h[1] = "worker" /\ worker[h[2]].type = "TileBuildParent"

\* a worker builds a parent from the images of several children: they were
\* taken out of the registry, which keeps them as Processed, and the worker is
\* their only holder
C17_Witness ==
    /\ HasContext
    /\ \E w \in Workers :
          /\ worker[w].type = "TileBuildParent"
          /\ Len(worker[w].children) >= 2
          /\ \A i \in DOMAIN worker[w].children :
                /\ tc.tiles[worker[w].children[i]] = "Processed"
                /\ Holders(worker[w].children[i]) = {<<"worker", w>>}

(***************************************************************************)
(* C18: cancellation                                                       *)
(***************************************************************************)
\* the Killed messages waiting in the completion queue
KilledQueued == Cardinality({i \in DOMAIN resultQ : resultQ[i] = Killed})

\* the coordinator has taken a Killed off the completion queue: more were sent
\* than are waiting, or it has left the loop on one
KilledReceived ==
    \/ endpoints = "open" /\ MaxInterrupts - ctrlc > KilledQueued
    \/ mainPc = "killed"

IsPrefix(s, t) == Len(s) <= Len(t) /\ SubSeq(t, 1, Len(s)) = s
IsSuffix(s, t) == Len(s) <= Len(t) /\ SubSeq(t, Len(t) - Len(s) + 1, Len(t)) = s

\* C18: once the coordinator has received Killed, with or without a plan, it
\* has left the loop and every later step leaves the registry, the map-index
\* and the Finished count as they are, sends no work item (the work queue only
\* loses items to the workers), puts no Finished into the completion queue
\* and takes nothing out of it (the queue only grows, until the teardown
\* drops it whole)
C18_Cancellation ==
    /\ [](KilledReceived => mainPc = "killed")
    /\ [][KilledReceived =>
            /\ mainPc' = "killed"
            /\ thread_context' = thread_context
            /\ logs' = logs
            /\ IsSuffix(workQ', workQ)
            /\ \/ IsPrefix(resultQ, resultQ') /\
                  \A i \in DOMAIN resultQ' : i > Len(resultQ) => resultQ'[i] # Finished
               \/ endpoints = "open" /\ endpoints' = "dropped" /\ resultQ' = << >>]_vars

\* the coordinator was killed while running: the plan exists, a work item is
\* still queued and a completion that a worker sent afterwards waits unhandled
C18_Witness ==
    /\ mainPc = "killed"
    /\ HasContext
    /\ endpoints = "open"
    /\ workQ # << >>
    /\ \E i \in DOMAIN resultQ : resultQ[i].type = "FinishReadImage"
    /\ finishedSent = 0

\* the coordinator was killed before info.json was handled
KilledBeforePlan == mainPc = "killed" /\ ~HasContext

(***************************************************************************)
(* C19: clean worker shutdown                                              *)
(***************************************************************************)
\* C19: after the coordinator stopped and the queue endpoints were dropped no
\* worker fails on the work item it still holds, and when the process exits
\* every worker has left its receive loop through the closed work channel
C19_CleanWorkerShutdown ==
    /\ \A w \in Workers : worker[w] # Panicked
    /\ exitStatus # << >> => \A w \in Workers : worker[w] = Exited

(***************************************************************************)
(* C20: exit outcome                                                       *)
(***************************************************************************)
\* C20: the exit status is 0 when the coordinator stopped on Finished and
\* non-zero when it stopped on Killed or on a fatal error
C20_ExitOutcome ==
    exitStatus # << >> =>
        /\ mainPc = "finished" => exitStatus[1] = 0
        /\ mainPc \in {"killed", "panicked"} => exitStatus[1] # 0

(***************************************************************************)
(* C21: manifest before images                                             *)
(***************************************************************************)
\* C21: while no plan exists no chunk image gets past the coordinator: no
\* ReadImage item is queued or held by a worker, no image proceeds to
\* write-parts and no part is written
C21_ManifestBeforeImages ==
    ~HasContext =>
        /\ workQ = << >>
        /\ \A w \in Workers : worker[w].type \notin {"ReadImage", "TileWriteParts"}
        /\ partsOnDisk = EmptyBag

(***************************************************************************)
(* C22: single plan                                                        *)
(***************************************************************************)
\* the coordinator takes the message at the head of the completion queue
TakesHead == mainPc = "loop" /\ resultQ # << >> /\ Len(resultQ') < Len(resultQ)

\* C22: when the coordinator handles an info.json while a plan exists it
\* stops with a fatal error and the plan (registry, min_zoom, total_tiles,
\* loaded_tiles) is left as it was; a plan, once made, is never replaced
C22_SinglePlan ==
    /\ [][(HasContext /\ TakesHead /\ Head(resultQ).type = "File"
                 /\ Head(resultQ).name = "info.json") =>
            (mainPc' = "panicked" /\ thread_context' = thread_context)]_vars
    /\ [][HasContext =>
            /\ Len(thread_context') = 1
            /\ thread_context'[1].min_zoom = tc.min_zoom
            /\ thread_context'[1].total_tiles = tc.total_tiles
            /\ DOMAIN thread_context'[1].tiles = DOMAIN tc.tiles
            /\ thread_context'[1].loaded_tiles >= tc.loaded_tiles]_vars

\* the second info.json was handled after a tile had completed: the
\* coordinator has stopped and the plan still counts that tile
C22_Witness ==
    /\ mainPc = "panicked"
    /\ HasContext
    /\ tc.loaded_tiles >= 1
    /\ Again(InfoFile) \notin toDeliver
    /\ \A i \in DOMAIN resultQ : resultQ[i] # Again(InfoFile)

(***************************************************************************)
(* C23: fatal stage errors propagate                                       *)
(***************************************************************************)
\* C23: when the stage of a worker fails while the coordinator is running, a
\* completion for it is put on the completion queue, and the coordinator is
\* never left in its loop with nothing to receive and no worker that works
\* while a planned tile is still missing
C23_FatalStageErrorsPropagate ==
    /\ [][\A w \in Workers :
            (/\ worker[w].type \in {"ReadImage", "TileWriteParts"}
             /\ worker'[w] = Panicked
             /\ endpoints = "open") => Len(resultQ') = Len(resultQ) + 1]_vars
    /\ [](~(/\ mainPc = "loop"
            /\ HasContext
            /\ \E w \in Workers : worker[w] = Panicked
            /\ \A w \in Workers : worker[w] \in {Idle, Panicked}
            /\ toDeliver = {} /\ resultQ = << >>
            /\ workQ = << >> \/ \A w \in Workers : worker[w] = Panicked))

(***************************************************************************)
(* C24: detection of a broken plan invariant                               *)
(***************************************************************************)
\* C24: the coordinator is never in its loop with loaded_tiles above
\* total_tiles, and a handler that leaves loaded_tiles above total_tiles
\* stops the coordinator
C24_PlanInvariantDetection ==
    /\ [](HasContext /\ mainPc = "loop" => tc.loaded_tiles <= tc.total_tiles)
    /\ [][(HasContext /\ thread_context'[1].loaded_tiles > tc.total_tiles
                      /\ thread_context' # thread_context) =>
            mainPc' = "panicked"]_vars

(***************************************************************************)
(* C30: duplicate chunk delivery                                           *)
(***************************************************************************)
\* C30: also when a chunk image is delivered twice, loaded_tiles counts every
\* tile once, no parent is built twice and Finished is not sent before every
\* planned tile has completed write-parts
C30_DuplicateChunkDelivery ==
    HasContext =>
        /\ tc.loaded_tiles = Cardinality(NotWaiting(tc))
        /\ \A p \in BagToSet(buildLog) : CopiesIn(p, buildLog) = 1
        /\ finishedSent >= 1 => \A t \in DOMAIN tc.tiles : CopiesIn(t, doneLog) >= 1

(***************************************************************************)
(* C25: malformed manifest                                                 *)
(***************************************************************************)
\* C25: with a manifest that does not parse no plan is ever made, the
\* coordinator stops with a fatal error when it handles info.json, and no
\* tile part is written at any point of the run
C25_MalformedManifest ==
    ~Parses(manifest) =>
        /\ ~HasContext
        /\ mainPc \in {"loop", "panicked"}
        /\ (InfoFile \notin toDeliver /\ resultQ = << >>) => mainPc = "panicked"
        /\ partsOnDisk = EmptyBag

\* the coordinator has stopped on the malformed manifest, nothing is written
\* yet and the chunk image has still to be saved by the game
StoppedOnMalformed ==
    /\ ~Parses(manifest)
    /\ mainPc = "panicked"
    /\ partsOnDisk = EmptyBag
    /\ toDeliver # {}

(***************************************************************************)
(* C26: chunk intake                                                       *)
(***************************************************************************)
\* the coordinator, with a plan, takes a chunk image of extension e off the
\* completion queue
TakesImage(e) ==
    /\ HasContext
    /\ TakesHead
    /\ Head(resultQ).type = "File"
    /\ Head(resultQ).name # "info.json"
    /\ Head(resultQ).ext = e

ImageTile(f) == Tile(f.name[1], MAX_ZOOM, f.name[2], f.name[3])

\* C26: with a plan, every chunk image <surface>,<x>,<y> of extension .bmp or
\* .png that the coordinator receives adds exactly one ReadImage item, for
\* the tile (surface, MAX_ZOOM, x, y), to the work queue
C26_ChunkIntake ==
    [][\A e \in Extensions :
          TakesImage(e) => workQ' = Append(workQ, ReadImage(ImageTile(Head(resultQ))))]_vars

(***************************************************************************)
(* C27: scenario S1, one surface with the single chunk (0,0)               *)
(***************************************************************************)
S1 == <<SurfaceInfo("nauvis", <<Chunk(0, 0)>>)>>
S1Tiles == {Tile("nauvis", z, 0, 0) : z \in 15..20}
S1Parents == {Tile("nauvis", z, 0, 0) : z \in 15..19}
S1Paths == {<<"nauvis", z, X, Y>> : z \in 15..20, X \in 0..1, Y \in 0..1}

\* C27: for the manifest S1 the plan has min_zoom 14 and exactly the six
\* tiles (nauvis, z, 0, 0), z = 15..20; write-parts is performed for these
\* tiles only and once each, on the 24 paths with (X, Y) in {0,1} x {0,1} at
\* each zoom; BuildParent is dispatched once for each of the zooms 19..15;
\* when Finished is emitted all of this has happened, and it is emitted
C27_ScenarioS1 ==
    /\ [](manifest = S1 =>
            /\ HasContext =>
                  /\ DOMAIN tc.min_zoom = {"nauvis"} /\ tc.min_zoom["nauvis"] = 14
                  /\ DOMAIN tc.tiles = S1Tiles
                  /\ tc.total_tiles = 6
            /\ BagToSet(writeLog) \subseteq S1Tiles
            /\ BagToSet(buildLog) \subseteq S1Parents
            /\ BagToSet(partsOnDisk) \subseteq S1Paths
            /\ \A t \in BagToSet(writeLog) : CopiesIn(t, writeLog) = 1
            /\ \A t \in BagToSet(buildLog) : CopiesIn(t, buildLog) = 1
            /\ \A q \in BagToSet(partsOnDisk) : CopiesIn(q, partsOnDisk) = 1
            /\ finishedSent <= 1
            /\ finishedSent = 1 =>
                  /\ BagToSet(writeLog) = S1Tiles
                  /\ BagToSet(buildLog) = S1Parents
                  /\ BagToSet(partsOnDisk) = S1Paths
                  /\ Cardinality(S1Paths) = 24)
    /\ (manifest = S1) ~> (mainPc = "finished")

\* the run of S1 has received Finished with the 24 parts on disk
C27_Witness ==
    /\ manifest = S1
    /\ mainPc = "finished"
    /\ BagCardinality(partsOnDisk) = 24
    /\ BagCardinality(buildLog) = 5

(***************************************************************************)
(* C28: the payload of BuildParent                                         *)
(***************************************************************************)
\* the TileBuildParent items in the work queue and in the hands of a worker
BuildsInFlight ==
    {workQ[i] : i \in {j \in DOMAIN workQ : workQ[j].type = "TileBuildParent"}}
    \cup {worker[w] : w \in {v \in Workers : worker[v].type = "TileBuildParent"}}

\* lines 398-402: the quadrant into which a child is copied
BlitOffset(child, parent) == <<child.x - parent.x * 2, child.y - parent.y * 2>>

Quadrants(b) == {BlitOffset(b.children[i], b.parent) : i \in DOMAIN b.children}

\* C28: every BuildParent item carries exactly the children of its parent
\* that are keys of the registry, between one and four, none twice, each
\* taken out of the registry with its image; every child lies in a quadrant
\* of {0,1} x {0,1} and no two in the same; for the chunks (0,0) and (3,3)
\* the common ancestor at zoom 18 is built from two children, in the
\* quadrants (0,0) and (1,1)
C28_BuildParentPayload ==
    HasContext =>
        \A b \in BuildsInFlight :
            /\ Range(b.children) = ChildSet(b.parent) \cap DOMAIN tc.tiles
            /\ Len(b.children) = Cardinality(Range(b.children))
            /\ Len(b.children) \in 1..4
            /\ \A i \in DOMAIN b.children :
                  /\ tc.tiles[b.children[i]] = "Processed"
                  /\ Cardinality(Holders(b.children[i])) = 1
            /\ Quadrants(b) \subseteq {<<0, 0>>, <<1, 0>>, <<0, 1>>, <<1, 1>>}
            /\ Cardinality(Quadrants(b)) = Len(b.children)
            /\ (/\ manifest = <<SurfaceInfo("nauvis", <<Chunk(0, 0), Chunk(3, 3)>>)>>
                /\ b.parent = Tile("nauvis", 18, 0, 0)) =>
                  Quadrants(b) = {<<0, 0>>, <<1, 1>>}

\* a worker builds the common ancestor of the chunks (0,0) and (3,3) from its
\* two children
C28_Witness ==
    /\ manifest = <<SurfaceInfo("nauvis", <<Chunk(0, 0), Chunk(3, 3)>>)>>
    /\ \E w \in Workers :
          /\ worker[w].type = "TileBuildParent"
          /\ worker[w].parent = Tile("nauvis", 18, 0, 0)
          /\ Len(worker[w].children) = 2

(***************************************************************************)
(* C29: transparency flattening                                            *)
(***************************************************************************)
\* the k-th RGBA pixel of a byte sequence
PixelAt(bytes, k) == SubSeq(bytes, 4 * k - 3, 4 * k)

\* C29: of the bytes handed to the encoder every pixel whose alpha was at
\* most 127 is exactly (27, 45, 51, 0xff) and every pixel whose alpha was at
\* least 128 has its four channels unchanged, whatever its neighbours are
C29_TransparencyFlattening ==
    probe.state = "flattened" =>
        /\ Len(probe.out) = Len(probe.bytes)
        /\ \A k \in 1..(Len(probe.bytes) \div 4) :
              /\ PixelAt(probe.bytes, k)[4] <= 127 =>
                    PixelAt(probe.out, k) = <<27, 45, 51, 255>>
              /\ PixelAt(probe.bytes, k)[4] >= 128 =>
                    PixelAt(probe.out, k) = PixelAt(probe.bytes, k)

\* a part whose first pixel, of alpha 127, was overwritten and whose next
\* pixel, of alpha 128, was kept
C29_Witness ==
    /\ probe.state = "flattened"
    /\ PixelAt(probe.bytes, 1) = <<200, 100, 0, 127>>
    /\ PixelAt(probe.out, 1) = <<27, 45, 51, 255>>
    /\ PixelAt(probe.bytes, 2) = <<1, 2, 3, 128>>
    /\ PixelAt(probe.out, 2) = <<1, 2, 3, 128>>

(***************************************************************************)
(* C31: only the coordinator changes the plan, and only in two handlers    *)
(***************************************************************************)
\* the coordinator is in its loop with a message of the given type first
HeadIs(type) == mainPc = "loop" /\ resultQ # << >> /\ Head(resultQ).type = type

\* C31: a step that changes thread_context (the registry, min_zoom,
\* total_tiles, loaded_tiles) is a step of the coordinator on info.json or on
\* a FinishWriteParts, and no worker moves in it; a step in which a worker
\* moves leaves thread_context alone; when the coordinator takes a chunk
\* image, a FinishReadImage or a FinishBuildParent off the queue it leaves
\* thread_context alone and appends exactly one item to the work queue
C31_CoordinatorOnlyMutation ==
    /\ [][thread_context' # thread_context =>
            /\ worker' = worker
            /\ \/ HeadIs("File") /\ Head(resultQ).name = "info.json"
               \/ HeadIs("FinishWriteParts")
            /\ resultQ' # resultQ]_vars
    /\ [][worker' # worker => thread_context' = thread_context]_vars
    /\ [][(/\ TakesHead
           /\ \/ Head(resultQ).type \in {"FinishReadImage", "FinishBuildParent"}
              \/ Head(resultQ).type = "File" /\ Head(resultQ).name # "info.json") =>
            /\ thread_context' = thread_context
            /\ Len(workQ') = Len(workQ) + 1
            /\ IsPrefix(workQ, workQ')]_vars

\* with two tiles Loaded or Processed the coordinator has just passed a built
\* parent on to write-parts while a worker holds another item
C31_Witness ==
    /\ HasContext
    /\ tc.loaded_tiles >= 2
    /\ workQ # << >>
    /\ workQ[Len(workQ)].type = "TileWriteParts"
    /\ workQ[Len(workQ)].tile.zoom < MAX_ZOOM
    /\ \E w \in Workers : worker[w].type \in {"TileWriteParts", "TileBuildParent"}

(***************************************************************************)
(* C32: the order of the pipeline for each tile                            *)
(***************************************************************************)
\* the completion that belongs to a work item
CompletionOf(item) ==
    IF item.type = "ReadImage" THEN FinishReadImage(item.tile)
    ELSE IF item.type = "TileWriteParts" THEN FinishWriteParts(item.tile)
    ELSE FinishBuildParent(item.parent)

WorkTypes == {"ReadImage", "TileWriteParts", "TileBuildParent"}

\* the work items and completions that are on their way
InFlight == Range(workQ) \cup Range(resultQ) \cup {worker[w] : w \in Workers}

\* C32: a worker that lets go of a work item has sent exactly the completion
\* of the same kind for the same tile, for TileWriteParts with the four parts
\* of the tile on disk; a leaf has its write-parts dispatched only after its
\* decode is over, a parent only after its build is over, and the
\* FinishWriteParts of a tile is handled only after its write-parts is over
C32_PipelineOrder ==
    /\ [][\A w \in Workers :
            (worker[w].type \in WorkTypes /\ worker'[w] # worker[w]) =>
                /\ worker'[w] = Idle
                /\ resultQ' = Append(resultQ, CompletionOf(worker[w]))
                /\ worker[w].type = "TileWriteParts" =>
                      TilePaths(worker[w].tile) \subseteq BagToSet(partsOnDisk')]_vars
    /\ [](\A t \in BagToSet(writeLog) :
            IF t.zoom = MAX_ZOOM
            THEN /\ ChunkFile(t.surface, t.x, t.y) \notin toDeliver \cup Range(resultQ)
                 /\ {ReadImage(t), FinishReadImage(t)} \cap InFlight = {}
            ELSE /\ CopiesIn(t, buildLog) >= 1
                 /\ FinishBuildParent(t) \notin InFlight
                 /\ \A b \in BuildsInFlight : b.parent # t)
    /\ [](\A t \in BagToSet(doneLog) :
            /\ CopiesIn(t, writeLog) >= 1
            /\ TilePaths(t) \subseteq BagToSet(partsOnDisk)
            /\ {TileWriteParts(t), FinishWriteParts(t)} \cap InFlight = {})

\* a leaf and a parent built from it have both been through decode or build,
\* write-parts and the handling of FinishWriteParts
C32_Witness ==
    \E t \in BagToSet(doneLog) :
        /\ t.zoom = MAX_ZOOM
        /\ CopiesIn(ParentOf(t), doneLog) = 1
        /\ CopiesIn(ParentOf(t), buildLog) = 1

(***************************************************************************)
(* C33: quiescence when Finished is emitted                                *)
(***************************************************************************)
\* C33: once Finished has been emitted no registry tile is Waiting, the work
\* queue is empty, no worker holds a work item, nothing but Finished is in
\* the completion queue, the tiles at zoom min_zoom + 1 of their surface are
\* Loaded and every other registry tile is Processed
C33_QuiescenceAtCompletion ==
    finishedSent >= 1 =>
        /\ HasContext
        /\ workQ = << >>
        /\ \A w \in Workers : worker[w] \in {Idle, Exited}
        /\ \A i \in DOMAIN resultQ : resultQ[i] = Finished
        /\ \A t \in DOMAIN tc.tiles :
              tc.tiles[t] = IF t.zoom = tc.min_zoom[t.surface] + 1
                            THEN "Loaded" ELSE "Processed"

\* Finished has just been emitted and is still in the completion queue, for
\* a manifest of two surfaces one of which has two tiles at the top of its
\* pyramid or for a surface with chunks on both sides of the origin
C33_Witness ==
    /\ finishedSent = 1
    /\ mainPc = "loop"
    /\ resultQ = <<Finished>>
    /\ Cardinality({t \in DOMAIN tc.tiles : tc.tiles[t] = "Loaded"}) >= 2
    /\ \E t \in DOMAIN tc.tiles : tc.tiles[t] = "Processed"

(***************************************************************************)
(* C34: independence of the schedule                                       *)
(***************************************************************************)
\* the outcome of a run as a function of the manifest alone
PlanOf(info) == NewThreadContext(info)
FinalRegistry(info) ==
    [t \in DOMAIN PlanOf(info).tiles |->
        IF t.zoom = PlanOf(info).min_zoom[t.surface] + 1 THEN "Loaded" ELSE "Processed"]
FinalWrites(info) == SetToBag(DOMAIN PlanOf(info).tiles)
FinalBuilds(info) == SetToBag({t \in DOMAIN PlanOf(info).tiles : t.zoom < MAX_ZOOM})
FinalParts(info) == SetToBag(UNION {TilePaths(t) : t \in DOMAIN PlanOf(info).tiles})
FinalIndex(info) == <<MapInfo(info, PlanOf(info).tiles).surfaces>>

\* C34: whatever the number of workers and the interleaving, a run that has
\* received Finished has written the tiles, dispatched the parent builds,
\* left the registry and emitted the map-index that the manifest alone
\* determines, and every parent build on its way carries the children that
\* the plan has for it
C34_ScheduleIndependence ==
    /\ HasContext =>
          \A b \in BuildsInFlight :
              Range(b.children) = ChildSet(b.parent) \cap DOMAIN tc.tiles
    /\ mainPc = "finished" =>
          \E info \in {manifest} :
              /\ tc.tiles = FinalRegistry(info)
              /\ writeLog = FinalWrites(info)
              /\ buildLog = FinalBuilds(info)
              /\ partsOnDisk = FinalParts(info)
              /\ mapIndex = FinalIndex(info)

\* a run with a single worker has received Finished after several parent
\* builds
C34_Witness ==
    /\ mainPc = "finished"
    /\ endpoints = "open"
    /\ worker = Spawned(1)
    /\ BagCardinality(buildLog) >= 2 * (ZOOM_MARGIN - 1)

(***************************************************************************)
(* C35: completion happens at most once                                    *)
(***************************************************************************)
\* C35: on every input stream (files written twice, chunk images that are
\* not planned, chunk images closed before info.json) Finished is sent at
\* most once and the map-index is emitted at most once; total_tiles is fixed
\* once planned, loaded_tiles never decreases and grows by one at each
\* FinishWriteParts the coordinator handles
C35_AtMostOnceCompletion ==
    /\ [](finishedSent <= 1 /\ Len(mapIndex) <= 1)
    /\ [][(HasContext /\ HasContext')
             => /\ thread_context'[1].total_tiles = tc.total_tiles
                /\ thread_context'[1].loaded_tiles >= tc.loaded_tiles
                /\ (doneLog' # doneLog
                      => thread_context'[1].loaded_tiles = tc.loaded_tiles + 1)]_vars

\* Finished has been sent and a further FinishWriteParts has been counted
\* after it
C35_Witness ==
    /\ HasContext
    /\ finishedSent = 1
    /\ Len(mapIndex) = 1
    /\ tc.loaded_tiles > tc.total_tiles

(***************************************************************************)
(* C36: the planner is well defined                                        *)
(***************************************************************************)
\* the zoom levels at which the plan has tiles of surface n
PlannedZooms(n) == {t.zoom : t \in {u \in DOMAIN tc.tiles : u.surface = n}}

\* C36: for every surface of the manifest that has chunks, the value handed
\* to the logarithm is at least 1, and once planned its min_zoom is at most
\* MAX_ZOOM - 6 and the plan has tiles of the surface at six zoom levels or
\* more
C36_PlannerWellDefined ==
    \A i \in DOMAIN manifest :
        manifest[i].chunks # << >> =>
            /\ Extent(manifest[i].chunks) >= 1
            /\ HasContext =>
                  /\ manifest[i].name \in DOMAIN tc.min_zoom
                  /\ tc.min_zoom[manifest[i].name] <= MAX_ZOOM - ZOOM_MARGIN
                  /\ Cardinality(PlannedZooms(manifest[i].name)) >= ZOOM_MARGIN

\* a planned surface whose chunks lie at 0 and 1 only: the logarithm gets 1,
\* min_zoom is MAX_ZOOM - 6 and there are exactly six zoom levels; and a
\* planned surface with a chunk on the negative side
C36_Witness ==
    /\ HasContext
    /\ \E i \in DOMAIN manifest :
          /\ manifest[i].chunks # << >>
          /\ Extent(manifest[i].chunks) = 1
          /\ tc.min_zoom[manifest[i].name] = MAX_ZOOM - ZOOM_MARGIN
          /\ PlannedZooms(manifest[i].name) = (MAX_ZOOM - ZOOM_MARGIN + 1)..MAX_ZOOM
    /\ \E i \in DOMAIN manifest :
          /\ manifest[i].chunks # << >>
          /\ manifest[i].chunks[1].x < 0
          /\ tc.min_zoom[manifest[i].name] < MAX_ZOOM - ZOOM_MARGIN

(***************************************************************************)
(* C37: the intake of the file system                                      *)
(***************************************************************************)
\* the calls before the k-th, and among them those of one kind
Before(k) == SubSeq(fsLog, 1, k - 1)
CreatesBefore(k) == SelectSeq(Before(k), LAMBDA c : c.op = "create")
\* the inodes created, and those released, before the k-th call
CreatedBefore(k) == {c.inode : c \in Range(CreatesBefore(k))}
ReleasedBefore(k) ==
    {fsLog[j].inode : j \in {i \in 1..(k - 1) : fsLog[i].op = "release"}}
OpenBefore(k) == CreatedBefore(k) \ ReleasedBefore(k)
\* the k-th call is a write or a release on an inode that is not open
Unknown(k) == fsLog[k].op # "create" /\ fsLog[k].inode \notin OpenBefore(k)
\* the releases of open inodes, as positions in the log
Releases == SelectSeq([k \in DOMAIN fsLog |-> k],
                      LAMBDA k : fsLog[k].op = "release" /\ ~Unknown(k))
\* the payloads written to inode i before the k-th call, in call order
RECURSIVE Concat(_)
Concat(ss) == IF ss = << >> THEN << >> ELSE Head(ss) \o Concat(Tail(ss))
WrittenBefore(k, i) ==
    Concat([j \in DOMAIN SelectSeq(Before(k), LAMBDA c : c.op = "write" /\ c.inode = i) |->
              SelectSeq(Before(k), LAMBDA c : c.op = "write" /\ c.inode = i)[j].data])
\* the path given at the create of inode i
PathOf(i) == (CHOOSE c \in Range(CreatesBefore(Len(fsLog) + 1)) : c.inode = i).path

\* C37: the n-th create returns inode STARTING_INODE + n - 1, whatever was
\* released before; the table holds exactly the inodes created and not yet
\* released; each release of an open inode has sent one File message, with
\* the path of its create and the payloads written to the inode in call
\* order, and nothing else was sent; a write or release on an inode that is
\* not in the table is the last call (the callback has panicked), and no call
\* on an open inode panics
C37_FuseIntake ==
    /\ \A n \in DOMAIN CreatesBefore(Len(fsLog) + 1) :
          CreatesBefore(Len(fsLog) + 1)[n].inode = STARTING_INODE + n - 1
    /\ tilesFS.next_inode = STARTING_INODE + Len(CreatesBefore(Len(fsLog) + 1))
    /\ DOMAIN tilesFS.files = OpenBefore(Len(fsLog) + 1)
    /\ \A i \in DOMAIN tilesFS.files :
          tilesFS.files[i] = [path |-> PathOf(i),
                              data |-> WrittenBefore(Len(fsLog) + 1, i)]
    /\ Len(resultQ) = Len(Releases)
    /\ \A n \in DOMAIN Releases :
          resultQ[n] = [type |-> "File",
                        path |-> PathOf(fsLog[Releases[n]].inode),
                        data |-> WrittenBefore(Releases[n], fsLog[Releases[n]].inode)]
    /\ \A k \in DOMAIN fsLog : Unknown(k) => k = Len(fsLog)
    /\ tilesFS.panicked <=> (fsLog # << >> /\ Unknown(Len(fsLog)))

\* a file written twice at the same offset with different payloads was
\* released, and then a call on its inode, which is no longer in the table,
\* has failed
C37_Witness ==
    /\ Len(resultQ) = 1
    /\ Len(resultQ[1].data) = 2
    /\ resultQ[1].data[1] # resultQ[1].data[2]
    /\ \E j, k \in DOMAIN fsLog :
          /\ j < k
          /\ fsLog[j].op = "write" /\ fsLog[k].op = "write"
          /\ fsLog[j].inode = fsLog[k].inode
          /\ fsLog[j].offset = fsLog[k].offset
    /\ tilesFS.panicked
    /\ fsLog[Len(fsLog)].inode \in ReleasedBefore(Len(fsLog))

====
